---- MODULE Spec2Model ----
(***************************************************************************)
(* PyAxols: an in-memory columnar table library (pyaxols/atypes/seq.py,    *)
(* pyaxols/atypes/table.py, pyaxols/utils.py).                             *)
(*                                                                         *)
(* The model keeps Python's object graph: a Table object refers to a dict, *)
(* a dict maps column names to Seq objects, a Seq object refers to the     *)
(* list (or tuple) that holds its values.  Every operation is an operator  *)
(* from a world (the four heaps) to a result [w, exc, ret]: the world      *)
(* after the call, the exception raised ("ok" for none) and the value      *)
(* returned.                                                               *)
(***************************************************************************)
EXTENDS Integers, Sequences, FiniteSets, TLC

VARIABLES
  lists,  \* the list and tuple objects: [kind, items]
  seqs,   \* the Seq objects: [name, dtype, data], data a list reference
  dicts,  \* the dict objects: sequences of entries [k, s], s a Seq reference
  tabs,   \* the Table objects: [d, it], d a dict reference
  roots,  \* the Tables the caller holds (the Seqs, where it works on Seqs)
  hist,   \* the calls made so far, the latest last; a call in progress
          \* is the last one, with its position as exc
  pre     \* the heaps as they were before the latest call

vars == <<lists, seqs, dicts, tabs, roots, hist, pre>>

(***************************************************************************)
(* Values.  A value is a pair <<type name, payload>>.  Strings are the     *)
(* entries of StrTab, which is listed in Python's string order, so that    *)
(* comparing two payloads compares the two strings.                        *)
(***************************************************************************)
None == <<"NoneType", 0>>
IntV(n) == <<"int", n>>
StrV(k) == <<"str", k>>

StrTab == <<"", "-1", "0", "1", "a">>

Types == {"int", "str", "object"}

\* isinstance(v, dtype)
IsInstance(v, dtype) == dtype = "object" \/ v[1] = dtype

\* dtype(): the value a type's constructor returns without arguments;
\* object() is a fresh object, equal to nothing else and not orderable.
DefaultOf(dtype) ==
  CASE dtype = "int" -> IntV(0)
    [] dtype = "str" -> StrV(1)
    [] OTHER -> <<"object", 0>>

\* dtype(v) for a value that is not None: <<exception, value>>
Coerce(dtype, v) ==
  CASE dtype = "object" -> <<"ok", v>>
    [] dtype = v[1] -> <<"ok", v>>
    [] dtype = "int" /\ v[1] = "str" ->
         IF v[2] \in {2, 3, 4} THEN <<"ok", IntV(v[2] - 3)>>
         ELSE <<"ValueError", None>>
    [] dtype = "str" /\ v[1] = "int" ->
         IF v[2] \in {-1, 0, 1} THEN <<"ok", StrV(v[2] + 3)>>
         ELSE <<"ValueError", None>>
    [] OTHER -> <<"TypeError", None>>

(***************************************************************************)
(* Worlds and results.                                                     *)
(***************************************************************************)
EmptyWorld == [lists |-> <<>>, seqs |-> <<>>, dicts |-> <<>>, tabs |-> <<>>]

Res(w, exc, ret) == [w |-> w, exc |-> exc, ret |-> ret]

\* a new list or tuple object; its reference is Len(w.lists) + 1
new_list(w, kind, items) ==
  [w EXCEPT !.lists = Append(@, [kind |-> kind, items |-> items])]

\* the items of the list a Seq refers to: Seq.data
DataOf(w, s) == w.lists[w.seqs[s].data].items

\* Seq.__len__
Seq_len(w, s) == Len(DataOf(w, s))

\* the dict of a Table: Table._data, as a sequence of [k, s] entries
DictOf(w, t) == w.dicts[w.tabs[t].d]

\* Table.cols
Table_cols(w, t) == [j \in 1..Len(DictOf(w, t)) |-> DictOf(w, t)[j].k]

\* Table.dtypes
Table_dtypes(w, t) ==
  [j \in 1..Len(DictOf(w, t)) |-> w.seqs[DictOf(w, t)[j].s].dtype]

\* Table.__len__: the number of columns
Table_len(w, t) == Len(DictOf(w, t))

\* Table.shape
Table_shape(w, t) ==
  IF Table_len(w, t) # 0
  THEN <<Table_len(w, t), Seq_len(w, DictOf(w, t)[1].s)>>
  ELSE <<0, 0>>

\* r = call; an exception of the call is the exception of the caller, and
\* otherwise the caller goes on as K(r); the call is evaluated once
Bind(r, K(_)) ==
  CHOOSE y \in {IF v.exc = "ok" THEN K(v) ELSE v : v \in {r}} : TRUE

(***************************************************************************)
(* Seq (pyaxols/atypes/seq.py).                                            *)
(***************************************************************************)
MinOf(S) == CHOOSE x \in S : \A y \in S : x <= y

MaxOf(S) == CHOOSE x \in S : \A y \in S : x >= y

\* [self.dtype(i) if i is not None else None for i in data], every element
\* as <<exception, value>>
cast(items, dtype) ==
  [j \in 1..Len(items) |->
     IF items[j] = None THEN <<"ok", None>> ELSE Coerce(dtype, items[j])]

\* the setters of Seq.__init__ for the sequence d: a typed Seq stores a new
\* list of the cast values co, and the first cast that fails raises; an
\* untyped one (dtype object) stores the very sequence it was given
Seq_set_data(w, d, name, dtype, co) ==
  IF dtype = "object"
  THEN Res([w EXCEPT !.seqs =
              Append(@, [name |-> name, dtype |-> dtype, data |-> d])],
           "ok", Len(w.seqs) + 1)
  ELSE IF \E j \in 1..Len(co) : co[j][1] # "ok"
  THEN Res(w, co[MinOf({j \in 1..Len(co) : co[j][1] # "ok"})][1], 0)
  ELSE Res([w EXCEPT
              !.lists = Append(@, [kind |-> "list",
                                   items |-> [j \in 1..Len(co) |-> co[j][2]]]),
              !.seqs = Append(@, [name |-> name, dtype |-> dtype,
                                  data |-> Len(w.lists) + 1])],
           "ok", Len(w.seqs) + 1)

\* Seq.__init__(data, name, dtype); data is the reference of the sequence
\* passed in, 0 for data=None.  ret is the reference of the new Seq.
Seq_init(w, data, name, dtype) ==
  IF dtype \notin Types THEN Res(w, "TypeError", 0)
  ELSE IF data = 0
  THEN Seq_set_data(new_list(w, "list", <<>>), Len(w.lists) + 1, name, dtype,
                    <<>>)
  ELSE Seq_set_data(w, data, name, dtype, cast(w.lists[data].items, dtype))

\* Seq.empty(name, dtype)
Seq_empty(w, name, dtype) == Seq_init(w, 0, name, dtype)

\* the list or tuple behind the operand of Seq.__add__: other.data of a
\* "Seq", the operand itself when it is a plain "list"
operand(w, okind, o) ==
  IF okind = "Seq" THEN w.lists[w.seqs[o].data] ELSE w.lists[o]

\* Seq.__add__(other).  isinstance(other, self.dtype) is true of a Seq and
\* of a list exactly when dtype is object, and then every element i is
\* added to other (i + other), which raises TypeError for a None, int or
\* str element and yields [] when there is no element.  Otherwise the two
\* sequences are joined, a list with a list or a tuple with a tuple.
Seq_add(w, s, okind, o) ==
  IF IsInstance(<<okind, 0>>, w.seqs[s].dtype)
  THEN IF Seq_len(w, s) # 0 THEN Res(w, "TypeError", 0)
       ELSE Seq_init(new_list(w, "list", <<>>), Len(w.lists) + 1,
                     w.seqs[s].name, w.seqs[s].dtype)
  ELSE IF w.lists[w.seqs[s].data].kind # operand(w, okind, o).kind
  THEN Res(w, "TypeError", 0)
  ELSE Seq_init(new_list(w, operand(w, okind, o).kind,
                         DataOf(w, s) \o operand(w, okind, o).items),
                Len(w.lists) + 1, w.seqs[s].name, w.seqs[s].dtype)

\* Seq.grow(n)
Seq_grow(w, s, n) ==
  IF n < 0 THEN Res(w, "ValueError", 0)
  ELSE IF n = 0 THEN Res(w, "ok", s)
  ELSE Seq_add(new_list(w, "list", [j \in 1..n |-> None]), s, "list",
               Len(w.lists) + 1)

\* a faulty append, which puts the value in front: list.insert(0, value)
Seq_append_front(w, s, value) ==
  IF w.lists[w.seqs[s].data].kind # "list" THEN Res(w, "AttributeError", 0)
  ELSE Res([w EXCEPT !.lists[w.seqs[s].data].items = <<value>> \o @],
           "ok", s)

\* Seq.append(value): list.append on the stored sequence; a tuple has no
\* append
Seq_append(w, s, value) ==
  IF w.lists[w.seqs[s].data].kind # "list" THEN Res(w, "AttributeError", 0)
  ELSE Res([w EXCEPT !.lists[w.seqs[s].data].items = Append(@, value)],
           "ok", s)

\* del self.data[position], position counted from 0 and from the end when
\* negative
Seq_delitem(w, s, position) ==
  IF w.lists[w.seqs[s].data].kind # "list" THEN Res(w, "TypeError", 0)
  ELSE IF position < -Seq_len(w, s) \/ position >= Seq_len(w, s)
  THEN Res(w, "IndexError", 0)
  ELSE Res([w EXCEPT !.lists[w.seqs[s].data].items =
              [j \in 1..(Len(@) - 1) |->
                 IF j <= (IF position < 0 THEN position + Len(@) ELSE position)
                 THEN @[j] ELSE @[j + 1]]],
           "ok", 0)

\* a faulty find, which returns the last index of the value
Seq_find_last(w, s, value) ==
  IF \A j \in 1..Seq_len(w, s) : DataOf(w, s)[j] # value
  THEN Res(w, "ValueError", -1)
  ELSE Res(w, "ok", MaxOf({j \in 1..Seq_len(w, s) : DataOf(w, s)[j] = value}) - 1)

\* Seq.find(value): list.index, counted from 0
Seq_find(w, s, value) ==
  IF \A j \in 1..Seq_len(w, s) : DataOf(w, s)[j] # value
  THEN Res(w, "ValueError", -1)
  ELSE Res(w, "ok", MinOf({j \in 1..Seq_len(w, s) : DataOf(w, s)[j] = value}) - 1)

(***************************************************************************)
(* Table (pyaxols/atypes/table.py): construction and shape.                *)
(***************************************************************************)
\* d[k] = s on a Python dict: an existing key keeps its position
DictSet(entries, k, s) ==
  IF \E j \in 1..Len(entries) : entries[j].k = k
  THEN [j \in 1..Len(entries) |->
          IF entries[j].k = k THEN [k |-> k, s |-> s] ELSE entries[j]]
  ELSE Append(entries, [k |-> k, s |-> s])

\* k in d
DictHas(entries, k) == \E j \in 1..Len(entries) : entries[j].k = k

\* d[k], for a key that is present
DictGet(entries, k) ==
  entries[CHOOSE j \in 1..Len(entries) : entries[j].k = k].s

\* a new dict object; its reference is Len(w.dicts) + 1
new_dict(w, entries) == [w EXCEPT !.dicts = Append(@, entries)]

\* the loop of Table._smooth from column j on: each column is replaced by
\* its grow()n version; the first exception ends the loop and leaves the
\* columns before it replaced
RECURSIVE smooth_loop(_, _, _, _)
smooth_loop(w, t, max_len, j) ==
  IF j > Table_len(w, t) THEN Res(w, "ok", 0)
  ELSE Bind(Seq_grow(w, DictOf(w, t)[j].s,
                     max_len - Seq_len(w, DictOf(w, t)[j].s)),
            LAMBDA g :
              smooth_loop([g.w EXCEPT !.dicts[w.tabs[t].d][j].s = g.ret],
                          t, max_len, j + 1))

\* Table._smooth; max() of no lengths raises ValueError
Table_smooth(w, t) ==
  IF Table_len(w, t) = 0 THEN Res(w, "ValueError", 0)
  ELSE smooth_loop(w, t,
         MaxOf({Seq_len(w, DictOf(w, t)[j].s) : j \in 1..Table_len(w, t)}), 1)

\* Table.__init__(data): d is the reference of the dict passed in; whatever
\* _smooth raises is swallowed.  ret is the reference of the new Table.
Table_init(w, d) ==
  Res(Table_smooth([w EXCEPT !.tabs = Append(@, [d |-> d, it |-> 0])],
                   Len(w.tabs) + 1).w,
      "ok", Len(w.tabs) + 1)

\* Table.i(index), index counted from 0 and from the end when negative;
\* ret is the row
Table_i(w, t, index) ==
  IF \E j \in 1..Table_len(w, t) :
       \/ index >= Seq_len(w, DictOf(w, t)[j].s)
       \/ index < -Seq_len(w, DictOf(w, t)[j].s)
  THEN Res(w, "IndexError", <<>>)
  ELSE Res(w, "ok",
           [j \in 1..Table_len(w, t) |->
              DataOf(w, DictOf(w, t)[j].s)[
                IF index < 0 THEN Seq_len(w, DictOf(w, t)[j].s) + index + 1
                ELSE index + 1]])

\* an optional argument: Nothing is Python's None default
Some(x) == [some |-> TRUE, v |-> x]

Nothing == [some |-> FALSE, v |-> <<>>]

\* f"unnamed_{i}"
Unnamed(i) ==
  CASE i = 0 -> "unnamed_0"
    [] i = 1 -> "unnamed_1"
    [] i = 2 -> "unnamed_2"
    [] OTHER -> "unnamed_n"

Range(f) == {f[j] : j \in DOMAIN f}

\* Table._create_cols(cols, data) for data given as raw sequences; ret is
\* the tuple of names
create_cols(w, cols, data) ==
  IF ~cols.some
  THEN IF Len(data) = 0 THEN Res(w, "IndexError", <<>>)
       ELSE Res(w, "ok", [j \in 1..Len(data) |-> Unnamed(j - 1)])
  ELSE IF Len(cols.v) # Len(data) THEN Res(w, "ValueError", <<>>)
  ELSE IF Cardinality(Range(cols.v)) # Len(data)
  THEN Res(w, "ValueError", <<>>)
  ELSE Res(w, "ok", cols.v)

\* dtypes, or [object for d in data] when dtypes is None
dtypes_or_object(dtypes, n) ==
  IF dtypes.some THEN dtypes.v ELSE [j \in 1..n |-> "object"]

\* all(isinstance(dtype, type) or dtype is None for dtype in dtypes)
are_types(dtypes) ==
  \A j \in 1..Len(dtypes) : dtypes[j] \in Types \cup {"None"}

\* {col: Seq(d, col, dtype) for col, d, dtype in zip(cols, data, dtypes)}
\* from position j on; acc holds the entries built so far
RECURSIVE build_seqs(_, _, _, _, _, _)
build_seqs(w, cols, data, dtypes, j, acc) ==
  IF j > Len(cols) \/ j > Len(data) \/ j > Len(dtypes)
  THEN Res(w, "ok", acc)
  ELSE Bind(Seq_init(w, data[j], cols[j], dtypes[j]),
            LAMBDA r :
              build_seqs(r.w, cols, data, dtypes, j + 1,
                         DictSet(acc, cols[j], r.ret)))

\* Table(entries) for a dict display or comprehension that evaluated to
\* the given entries
Table_of(w, entries) == Table_init(new_dict(w, entries), Len(w.dicts) + 1)

\* Table.from_iterable(data, cols, dtypes); data is a sequence of
\* references to the raw columns
Table_from_iterable(w, data, cols, dtypes) ==
  Bind(create_cols(w, cols, data),
       LAMBDA cc :
         IF dtypes.some /\ Len(dtypes.v) # Len(data)
         THEN Res(w, "ValueError", 0)
         ELSE IF ~are_types(dtypes_or_object(dtypes, Len(data)))
         THEN Res(w, "TypeError", 0)
         ELSE Bind(build_seqs(w, cc.ret, data,
                              dtypes_or_object(dtypes, Len(data)), 1, <<>>),
                   LAMBDA b : Table_of(b.w, b.ret)))

\* Table.from_dict_of_iterable(d, dtypes); d is given by its keys and the
\* references of its values
Table_from_dict_of_iterable(w, keys, data, dtypes) ==
  IF dtypes.some /\ Len(dtypes.v) # Len(keys) THEN Res(w, "ValueError", 0)
  ELSE IF ~are_types(dtypes_or_object(dtypes, Len(keys)))
  THEN Res(w, "TypeError", 0)
  ELSE Bind(build_seqs(w, keys, data, dtypes_or_object(dtypes, Len(keys)),
                       1, <<>>),
            LAMBDA b : Table_of(b.w, b.ret))

\* the data of Seq.empty, which passes data=None, for n columns
NoData(n) == [j \in 1..n |-> 0]

\* Table.empty(cols, dtypes)
Table_empty(w, cols, dtypes) ==
  Bind(build_seqs(w, cols, NoData(Len(cols)), dtypes, 1, <<>>),
       LAMBDA b : Table_of(b.w, b.ret))

\* {s.name: s for s in seqs}
RECURSIVE by_name(_, _, _, _)
by_name(w, ss, j, acc) ==
  IF j > Len(ss) THEN acc
  ELSE by_name(w, ss, j + 1, DictSet(acc, w.seqs[ss[j]].name, ss[j]))

\* Table.from_seqs(seqs); ss is a sequence of Seq references
Table_from_seqs(w, ss) ==
  IF Cardinality({w.seqs[ss[j]].name : j \in 1..Len(ss)}) # Len(ss)
  THEN Res(w, "ValueError", 0)
  ELSE Table_of(w, by_name(w, ss, 1, <<>>))

\* Table.__setitem__(key, value): the column is stored before _smooth runs,
\* and what _smooth raises is raised
Table_setitem(w, t, key, value) ==
  Table_smooth([w EXCEPT !.dicts[w.tabs[t].d] = DictSet(@, key, value)], t)

(***************************************************************************)
(* Table: row mutation.                                                    *)
(***************************************************************************)
\* the appending loop of Table.append_row from column j on
RECURSIVE append_loop(_, _, _, _)
append_loop(w, t, row, j) ==
  IF j > Table_len(w, t) THEN Res(w, "ok", t)
  ELSE Bind(Seq_append(w, DictOf(w, t)[j].s, row[j]),
            LAMBDA r : append_loop(r.w, t, row, j + 1))

\* Table.append_row(row): the length check, the type check of every value,
\* then the appends
Table_append_row(w, t, row) ==
  IF Len(row) # Table_shape(w, t)[1] THEN Res(w, "ValueError", 0)
  ELSE IF \E j \in 1..Len(row) :
            ~IsInstance(row[j], Table_dtypes(w, t)[j]) /\ row[j] # None
  THEN Res(w, "TypeError", 0)
  ELSE append_loop(w, t, row, 1)

\* Table.drop_col(col): del self._data[col]
Table_drop_col(w, t, col) ==
  IF ~DictHas(DictOf(w, t), col) THEN Res(w, "KeyError", 0)
  ELSE Res([w EXCEPT !.dicts[w.tabs[t].d] =
              SelectSeq(@, LAMBDA e : e.k # col)],
           "ok", t)

\* the loop of Table.drop_row over self.cols, from column j on
RECURSIVE drop_row_loop(_, _, _, _)
drop_row_loop(w, t, index, j) ==
  IF j > Table_len(w, t) THEN Res(w, "ok", t)
  ELSE Bind(Seq_delitem(w, DictOf(w, t)[j].s, index),
            LAMBDA r : drop_row_loop(r.w, t, index, j + 1))

\* Table.drop_row(index)
Table_drop_row(w, t, index) == drop_row_loop(w, t, index, 1)

\* any(v is None for v in row)
has_none(row) == \E j \in 1..Len(row) : row[j] = None

\* the while loop of Table.drop_nones with its counter at i
RECURSIVE drop_nones_loop(_, _, _)
drop_nones_loop(w, t, i) ==
  IF ~(i < Table_shape(w, t)[2]) THEN Res(w, "ok", t)
  ELSE Bind(Table_i(w, t, i),
            LAMBDA row :
              IF has_none(row.ret)
              THEN Bind(Table_drop_row(w, t, i),
                        LAMBDA r : drop_nones_loop(r.w, t, i))
              ELSE drop_nones_loop(w, t, i + 1))

\* Table.drop_nones()
Table_drop_nones(w, t) == drop_nones_loop(w, t, 0)

(***************************************************************************)
(* The ranking utility (pyaxols/utils.py) and Table.sorted.                *)
(***************************************************************************)
\* whether a < b is defined on two sort keys: ints order by value, strings
\* by their place in StrTab, anything else raises TypeError
Orderable(a, b) == a[1] = b[1] /\ a[1] \in {"int", "str"}

\* a < b on two sort keys that order
KeyLess(a, b) == a[2] < b[2]

\* whether index x goes before index y, which precedes it in the input
\* and has so far been placed before it
goes_before(keys, x, y, desc) ==
  IF desc THEN KeyLess(keys[y], keys[x]) ELSE KeyLess(keys[x], keys[y])

\* a faulty insertion, which places an index before the indices of equal
\* keys: the sort it makes is not stable
RECURSIVE insert_unstable(_, _, _, _)
insert_unstable(acc, keys, x, desc) ==
  IF acc = <<>> THEN <<x>>
  ELSE IF ~goes_before(keys, acc[Len(acc)], x, desc)
  THEN Append(insert_unstable(SubSeq(acc, 1, Len(acc) - 1), keys, x, desc),
              acc[Len(acc)])
  ELSE Append(acc, x)

\* sorted() places each index, in turn, behind every index whose key does
\* not come after its own: a stable sort.  With reverse=True the order of
\* the keys is reversed and the order of equal keys is not.
RECURSIVE insert_sorted(_, _, _, _)
insert_sorted(acc, keys, x, desc) ==
  IF acc = <<>> THEN <<x>>
  ELSE IF goes_before(keys, x, acc[Len(acc)], desc)
  THEN Append(insert_sorted(SubSeq(acc, 1, Len(acc) - 1), keys, x, desc),
              acc[Len(acc)])
  ELSE Append(acc, x)

RECURSIVE sort_from(_, _, _, _)
sort_from(acc, keys, x, desc) ==
  IF x > Len(keys) THEN acc
  ELSE sort_from(insert_sorted(acc, keys, x, desc), keys, x + 1, desc)

\* a faulty key, which ranks None behind every value ("Nones should be in
\* the end")
sort_keys_nones_last(items, dtype) ==
  [x \in 1..Len(items) |->
     IF items[x] # None THEN items[x] ELSE <<dtype, 9>>]

\* the key of argsort: seq[x] if seq[x] is not None else dtype()
sort_keys(items, dtype) ==
  [x \in 1..Len(items) |->
     IF items[x] # None THEN items[x] ELSE DefaultOf(dtype)]

\* sorted(range(len(keys)), key=..., reverse=desc): ret is the permutation,
\* counted from 1.  Sorting two or more keys compares keys, and raises
\* unless they all order with each other.
sorted_range(w, keys, desc) ==
  IF Len(keys) >= 2 /\ \E x, y \in 1..Len(keys) : ~Orderable(keys[x], keys[y])
  THEN Res(w, "TypeError", <<>>)
  ELSE Res(w, "ok", sort_from(<<>>, keys, 1, desc))

\* argsort(seq, dtype, desc)
argsort(w, items, dtype, desc) == sorted_range(w, sort_keys(items, dtype), desc)

\* tuple(tuple(s[i] for i in perm) for s in self._data.values()), from
\* column j on: each column becomes a new tuple; an index beyond a column
\* raises IndexError
RECURSIVE permuted_cols(_, _, _, _, _)
permuted_cols(w, t, perm, j, acc) ==
  IF j > Table_len(w, t) THEN Res(w, "ok", acc)
  ELSE IF \E x \in 1..Len(perm) : perm[x] > Seq_len(w, DictOf(w, t)[j].s)
  THEN Res(w, "IndexError", acc)
  ELSE permuted_cols(
         new_list(w, "tuple",
                  [x \in 1..Len(perm) |->
                     DataOf(w, DictOf(w, t)[j].s)[perm[x]]]),
         t, perm, j + 1, Append(acc, Len(w.lists) + 1))

\* Table.sorted(column, desc)
Table_sorted(w, t, column, desc) ==
  IF ~DictHas(DictOf(w, t), column) THEN Res(w, "ValueError", 0)
  ELSE Bind(argsort(w, DataOf(w, DictGet(DictOf(w, t), column)),
                    w.seqs[DictGet(DictOf(w, t), column)].dtype, desc),
            LAMBDA perm :
              Bind(permuted_cols(w, t, perm.ret, 1, <<>>),
                   LAMBDA data :
                     Table_from_iterable(data.w, data.ret,
                                         Some(Table_cols(w, t)),
                                         Some(Table_dtypes(w, t)))))

(***************************************************************************)
(* Table: relational combination.                                          *)
(***************************************************************************)
\* {**a, **b}
RECURSIVE dict_merge(_, _, _)
dict_merge(a, b, j) ==
  IF j > Len(b) THEN a
  ELSE dict_merge(DictSet(a, b[j].k, b[j].s), b, j + 1)

\* Table.concat(other)
Table_concat(w, t, other) ==
  Table_of(w, dict_merge(DictOf(w, t), DictOf(w, other), 1))

\* {k: self._data[k] + other._data[k] for k in self._data}, from entry j on
RECURSIVE added_cols(_, _, _, _, _)
added_cols(w, t, other, j, acc) ==
  IF j > Table_len(w, t) THEN Res(w, "ok", acc)
  ELSE Bind(Seq_add(w, DictOf(w, t)[j].s, "Seq",
                    DictGet(DictOf(w, other), DictOf(w, t)[j].k)),
            LAMBDA r :
              added_cols(r.w, t, other, j + 1,
                         Append(acc, [k |-> DictOf(w, t)[j].k, s |-> r.ret])))

\* self._data.keys() == other._data.keys(): dict views compare as sets
same_keys(w, t, other) == Range(Table_cols(w, t)) = Range(Table_cols(w, other))

\* Table.union_all(other)
Table_union_all(w, t, other) ==
  IF ~same_keys(w, t, other) THEN Res(w, "ValueError", 0)
  ELSE Bind(added_cols(w, t, other, 1, <<>>),
            LAMBDA r : Table_of(r.w, r.ret))

\* Table.__iter__
Table_iter(w, t) == [w EXCEPT !.tabs[t].it = 0]

\* Table.__next__: the counter runs up to len(self), the number of
\* columns; exc is "StopIteration" at the end
Table_next(w, t) ==
  IF w.tabs[t].it < Table_len(w, t)
  THEN Table_i([w EXCEPT !.tabs[t].it = @ + 1], t, w.tabs[t].it)
  ELSE Res(w, "StopIteration", <<>>)

\* one turn of "for row in t": n is what __next__ did; StopIteration ends
\* the loop, which then yields done, and the body is K(n)
ForNext(n, done, K(_)) ==
  IF n.exc = "StopIteration" THEN Res(n.w, "ok", done)
  ELSE IF n.exc # "ok" THEN n
  ELSE K(n)

\* the loop "for r in self: if r == tuple(row): return True" of
\* Table.contains_row, after __iter__
RECURSIVE contains_loop(_, _, _)
contains_loop(w, t, row) ==
  ForNext(Table_next(w, t), FALSE,
          LAMBDA n : IF n.ret = row THEN Res(n.w, "ok", TRUE)
                     ELSE contains_loop(n.w, t, row))

\* Table.contains_row(row)
Table_contains_row(w, t, row) ==
  IF Len(row) # Table_shape(w, t)[1] THEN Res(w, "ValueError", FALSE)
  ELSE contains_loop(Table_iter(w, t), t, row)

\* the loop "for row in src: if not empt.contains_row(row):
\* empt.append_row(row)" of Table.union, after __iter__
RECURSIVE union_loop(_, _, _)
union_loop(w, src, empt) ==
  ForNext(Table_next(w, src), empt,
    LAMBDA n :
      Bind(Table_contains_row(n.w, empt, n.ret),
        LAMBDA c :
          IF c.ret THEN union_loop(c.w, src, empt)
          ELSE Bind(Table_append_row(c.w, empt, n.ret),
                    LAMBDA a : union_loop(a.w, src, empt))))

\* Table.union(other)
Table_union(w, t, other) ==
  IF ~same_keys(w, t, other) THEN Res(w, "ValueError", 0)
  ELSE Bind(Table_empty(w, Table_cols(w, t), Table_dtypes(w, t)),
         LAMBDA e :
           Bind(union_loop(Table_iter(e.w, other), other, e.ret),
                LAMBDA r : union_loop(Table_iter(r.w, t), t, e.ret)))

\* the loop "for row in self: if other.contains_row(row):
\* emt.append_row(row)" of Table.intersect, after __iter__
RECURSIVE intersect_loop(_, _, _, _)
intersect_loop(w, t, other, emt) ==
  ForNext(Table_next(w, t), emt,
    LAMBDA n :
      Bind(Table_contains_row(n.w, other, n.ret),
        LAMBDA c :
          IF ~c.ret THEN intersect_loop(c.w, t, other, emt)
          ELSE Bind(Table_append_row(c.w, emt, n.ret),
                    LAMBDA a : intersect_loop(a.w, t, other, emt))))

\* Table.intersect(other)
Table_intersect(w, t, other) ==
  IF Table_cols(w, t) # Table_cols(w, other) THEN Res(w, "ValueError", 0)
  ELSE Bind(Table_empty(w, Table_cols(w, t), Table_dtypes(w, t)),
            LAMBDA e : intersect_loop(Table_iter(e.w, t), t, other, e.ret))

\* "if val != prev_val: res.append(empt); empt = Table.empty(...);
\* res.append(empt)" of Table.group_by: ret is [empt, res] after it
next_group(w, sorted, changed, empt, res) ==
  IF ~changed THEN Res(w, "ok", [empt |-> empt, res |-> res])
  ELSE Bind(Table_empty(w, Table_cols(w, sorted), Table_dtypes(w, sorted)),
            LAMBDA e :
              Res(e.w, "ok",
                  [empt |-> e.ret, res |-> res \o <<empt, e.ret>>]))

\* the loop of Table.group_by over vals, the sorted column, at index i
\* (from 0)
RECURSIVE group_loop(_, _, _, _, _, _, _)
group_loop(w, sorted, vals, i, prev_val, empt, res) ==
  IF i >= Len(vals) THEN Res(w, "ok", res)
  ELSE Bind(next_group(w, sorted, vals[i + 1] # prev_val, empt, res),
         LAMBDA g :
           Bind(Table_i(g.w, sorted, i),
             LAMBDA row :
               Bind(Table_append_row(g.w, g.ret.empt, row.ret),
                 LAMBDA a :
                   group_loop(a.w, sorted, vals, i + 1, vals[i + 1],
                              g.ret.empt, g.ret.res))))

\* sorted[col][0], then the loop
group_sorted(w, sorted, vals, empt) ==
  IF Len(vals) = 0 THEN Res(w, "IndexError", <<>>)
  ELSE group_loop(w, sorted, vals, 0, vals[1], empt, <<>>)

\* Table.group_by(col): ret is the list of the Table references returned
Table_group_by(w, t, col) ==
  Bind(Table_empty(w, Table_cols(w, t), Table_dtypes(w, t)),
    LAMBDA e :
      Bind(Table_sorted(e.w, t, col, FALSE),
        LAMBDA s :
          group_sorted(s.w, s.ret, DataOf(s.w, DictGet(DictOf(s.w, s.ret), col)),
                       e.ret)))

\* the row Table.left_join appends for index, what Seq.find returned or -1:
\* [None] * right.shape[0] or right.i(index)
joined_row(w, right, index) ==
  IF index = -1
  THEN Res(w, "ok", [x \in 1..Table_shape(w, right)[1] |-> None])
  ELSE Table_i(w, right, index)

\* the loop "for val in self[left_on]" of Table.left_join, at position j
RECURSIVE join_loop(_, _, _, _, _, _)
join_loop(w, vals, right, right_on, empt, j) ==
  IF j > Len(vals) THEN Res(w, "ok", empt)
  ELSE Bind(joined_row(w, right,
              Seq_find(w, DictGet(DictOf(w, right), right_on), vals[j]).ret),
         LAMBDA row :
           Bind(Table_append_row(w, empt, row.ret),
                LAMBDA a :
                  join_loop(a.w, vals, right, right_on, empt, j + 1)))

\* a faulty end of left_join, which leaves the common columns in empt
drop_common_kept(w, cols, right_cols, empt, j) == Res(w, "ok", empt)

\* the loop "for col in self.cols: if col in right.cols:
\* empt.drop_col(col)" of Table.left_join, from column j on
RECURSIVE drop_common(_, _, _, _, _)
drop_common(w, cols, right_cols, empt, j) ==
  IF j > Len(cols) THEN Res(w, "ok", empt)
  ELSE IF cols[j] \notin Range(right_cols)
  THEN drop_common(w, cols, right_cols, empt, j + 1)
  ELSE Bind(Table_drop_col(w, empt, cols[j]),
            LAMBDA r : drop_common(r.w, cols, right_cols, empt, j + 1))

\* faulty checks of left_join, which do not compare the dtypes
join_check_names(w, t, right, left_on, right_on) ==
  IF ~DictHas(DictOf(w, t), left_on) \/ ~DictHas(DictOf(w, right), right_on)
  THEN "KeyError"
  ELSE IF Cardinality(Range(Table_cols(w, t)) \cap Range(Table_cols(w, right)))
          # (IF left_on = right_on THEN 1 ELSE 0)
  THEN "ValueError"
  ELSE ""

\* the checks of Table.left_join: "" when they pass
join_check(w, t, right, left_on, right_on) ==
  IF ~DictHas(DictOf(w, t), left_on) \/ ~DictHas(DictOf(w, right), right_on)
  THEN "KeyError"
  ELSE IF w.seqs[DictGet(DictOf(w, t), left_on)].dtype
          # w.seqs[DictGet(DictOf(w, right), right_on)].dtype
  THEN "ValueError"
  ELSE IF Cardinality(Range(Table_cols(w, t)) \cap Range(Table_cols(w, right)))
          # (IF left_on = right_on THEN 1 ELSE 0)
  THEN "ValueError"
  ELSE ""

\* Table.left_join(right, left_on, right_on)
Table_left_join(w, t, right, left_on, right_on) ==
  IF join_check(w, t, right, left_on, right_on) # ""
  THEN Res(w, join_check(w, t, right, left_on, right_on), 0)
  ELSE Bind(Table_empty(w, Table_cols(w, right), Table_dtypes(w, right)),
         LAMBDA e :
           Bind(join_loop(e.w, DataOf(w, DictGet(DictOf(w, t), left_on)),
                          right, right_on, e.ret, 1),
             LAMBDA j :
               Bind(drop_common(j.w, Table_cols(w, t), Table_cols(w, right),
                                e.ret, 1),
                    LAMBDA d : Table_concat(d.w, t, e.ret))))

(***************************************************************************)
(* The caller: a state is the object graph after a sequence of calls of    *)
(* the public operations.                                                  *)
(***************************************************************************)
MaxCalls == 2
MaxCols == 2
MaxRows == 2

ColNames == <<"a", "b", "c">>

\* the values the caller passes in
Vals == {None, IntV(1)}

DTypes == {"int", "object"}

\* the raw columns the caller passes in
ItemSeqs == UNION {[1..n -> Vals] : n \in 0..MaxRows}

World == [lists |-> lists, seqs |-> seqs, dicts |-> dicts, tabs |-> tabs]

\* the Tables a call handed to the caller: the Table returned ("table"),
\* the Tables of the list returned ("list"), or none
Returned(r, returns) ==
  IF r.exc # "ok" THEN <<>>
  ELSE IF returns = "table" THEN <<r.ret>>
  ELSE IF returns = "list" THEN r.ret
  ELSE <<>>

\* the heaps are those of w
Holds(w) ==
  /\ lists = w.lists
  /\ seqs = w.seqs
  /\ dicts = w.dicts
  /\ tabs = w.tabs

\* the heaps become those of w
Becomes(w) ==
  /\ lists' = w.lists
  /\ seqs' = w.seqs
  /\ dicts' = w.dicts
  /\ tabs' = w.tabs

\* a call that ended as r: the heaps are those the call left, also when it
\* raised, and the call is recorded
Call(op, t, args, r, returns) ==
  /\ pre' = World
  /\ Becomes(r.w)
  /\ roots' = roots \cup Range(Returned(r, returns))
  /\ hist' = Append(hist, [op |-> op, t |-> t, args |-> args, exc |-> r.exc,
                           ret |-> Returned(r, returns)])

\* the caller makes at most MaxCalls calls
CanCall == Len(hist) < MaxCalls

\* no Table has been constructed yet
NoTable == tabs = <<>>

NoArgs ==
  [col |-> "", desc |-> FALSE, row |-> <<>>, index |-> 0, other |-> 0,
   cols |-> <<>>, dtypes |-> <<>>, right_on |-> "", func |-> {},
   pattern |-> <<>>]

\* the caller's raw columns, put on the heap as lists or tuples; ret holds
\* their references in order
raw_cols(w, kind, items) ==
  Res([w EXCEPT !.lists =
         @ \o [j \in 1..Len(items) |-> [kind |-> kind, items |-> items[j]]]],
      "ok", [j \in 1..Len(items) |-> Len(w.lists) + j])

\* the Seqs the caller builds: Seq(items[j], names[j], dts[j]) for every j;
\* ret holds their references
RECURSIVE caller_seqs(_, _, _, _, _, _)
caller_seqs(w, items, names, dts, j, acc) ==
  IF j > Len(items) THEN Res(w, "ok", acc)
  ELSE Bind(Seq_init(new_list(w, "list", items[j]), Len(w.lists) + 1,
                     names[j], dts[j]),
            LAMBDA r :
              caller_seqs(r.w, items, names, dts, j + 1, Append(acc, r.ret)))

\* the dict display {names[1]: ss[1], ...}
named(names, ss) == [j \in 1..Len(ss) |-> [k |-> names[j], s |-> ss[j]]]

Init ==
  /\ Holds(EmptyWorld)
  /\ roots = {}
  /\ hist = <<>>
  /\ pre = EmptyWorld

\* t = Table.from_iterable(data, cols, dtypes)
from_iterable ==
  /\ CanCall
  /\ NoTable
  /\ \E n \in 1..MaxCols, kind \in {"list", "tuple"}, cols \in BOOLEAN :
     \E items \in [1..n -> ItemSeqs],
        dts \in {Nothing} \cup {Some(d) : d \in [1..n -> DTypes]} :
       Call("from_iterable", 0, NoArgs,
            Bind(raw_cols(World, kind, items),
                 LAMBDA raw :
                   Table_from_iterable(raw.w, raw.ret,
                     IF cols THEN Some(SubSeq(ColNames, 1, n)) ELSE Nothing,
                     dts)),
            "table")

\* t = Table({name: Seq(items, name, dtype), ...})
new_Table ==
  /\ CanCall
  /\ NoTable
  /\ \E n \in 0..MaxCols :
     \E items \in [1..n -> ItemSeqs], dts \in [1..n -> DTypes] :
       Call("Table", 0, NoArgs,
            Bind(caller_seqs(World, items, SubSeq(ColNames, 1, n), dts, 1, <<>>),
                 LAMBDA ss :
                   Table_of(ss.w, named(SubSeq(ColNames, 1, n), ss.ret))),
            "table")

\* t = Table.from_seqs([Seq(items, name, dtype), ...])
from_seqs ==
  /\ CanCall
  /\ NoTable
  /\ \E n \in 0..MaxCols :
     \E items \in [1..n -> ItemSeqs], dts \in [1..n -> DTypes] :
       Call("from_seqs", 0, NoArgs,
            Bind(caller_seqs(World, items, SubSeq(ColNames, 1, n), dts, 1, <<>>),
                 LAMBDA ss : Table_from_seqs(ss.w, ss.ret)),
            "table")

\* t = Table.from_dict_of_iterable({name: items, ...}, dtypes)
from_dict_of_iterable ==
  /\ CanCall
  /\ NoTable
  /\ \E n \in 0..MaxCols :
     \E items \in [1..n -> ItemSeqs],
        dts \in {Nothing} \cup {Some(d) : d \in [1..n -> DTypes]} :
       Call("from_dict_of_iterable", 0, NoArgs,
            Bind(raw_cols(World, "list", items),
                 LAMBDA raw :
                   Table_from_dict_of_iterable(raw.w, SubSeq(ColNames, 1, n),
                                               raw.ret, dts)),
            "table")

\* t = Table.empty(cols, dtypes)
empty ==
  /\ CanCall
  /\ Cardinality(roots) < 2
  /\ \E n \in 0..MaxCols :
     \E dts \in [1..n -> DTypes] :
       Call("empty", 0,
            [NoArgs EXCEPT !.cols = SubSeq(ColNames, 1, n), !.dtypes = dts],
            Table_empty(World, SubSeq(ColNames, 1, n), dts), "table")

\* t[key] = Seq(items, key, dtype)
setitem ==
  /\ CanCall
  /\ \E t \in roots, key \in Range(ColNames), items \in ItemSeqs,
        dt \in DTypes :
       Call("setitem", t, [NoArgs EXCEPT !.col = key],
            Bind(caller_seqs(World, <<items>>, <<key>>, <<dt>>, 1, <<>>),
                 LAMBDA ss : Table_setitem(ss.w, t, key, ss.ret[1])),
            "none")

\* t.append_row(row)
append_row ==
  /\ CanCall
  /\ \E t \in roots, n \in 0..MaxCols :
     \E row \in [1..n -> Vals] :
       Call("append_row", t, [NoArgs EXCEPT !.row = row],
            Table_append_row(World, t, row), "none")

\* t.drop_row(index)
drop_row ==
  /\ CanCall
  /\ \E t \in roots, index \in 0..MaxRows :
       Call("drop_row", t, [NoArgs EXCEPT !.index = index],
            Table_drop_row(World, t, index), "none")

\* t.drop_nones()
drop_nones ==
  /\ CanCall
  /\ \E t \in roots :
       Call("drop_nones", t, NoArgs, Table_drop_nones(World, t), "none")

\* u = t.concat(other)
concat ==
  /\ CanCall
  /\ \E t \in roots, other \in roots :
       Call("concat", t, [NoArgs EXCEPT !.other = other],
            Table_concat(World, t, other), "table")

\* u = t.union_all(other)
union_all ==
  /\ CanCall
  /\ \E t \in roots, other \in roots :
       Call("union_all", t, [NoArgs EXCEPT !.other = other],
            Table_union_all(World, t, other), "table")

\* u = t.sorted(column, desc)
sorted ==
  /\ CanCall
  /\ \E t \in roots, column \in Range(ColNames), desc \in BOOLEAN :
       Call("sorted", t, [NoArgs EXCEPT !.col = column, !.desc = desc],
            Table_sorted(World, t, column, desc), "table")

\* u = t.left_join(right, left_on, right_on), for columns the tables have
left_join ==
  /\ CanCall
  /\ \E t \in roots, right \in roots :
     \E left_on \in Range(Table_cols(World, t)),
        right_on \in Range(Table_cols(World, right)) :
       Call("left_join", t,
            [NoArgs EXCEPT !.other = right, !.col = left_on,
                           !.right_on = right_on],
            Table_left_join(World, t, right, left_on, right_on), "table")

Next ==
  \/ new_Table
  \/ from_seqs
  \/ from_dict_of_iterable
  \/ from_iterable
  \/ empty
  \/ setitem
  \/ append_row
  \/ drop_row
  \/ drop_nones
  \/ concat
  \/ union_all
  \/ sorted
  \/ left_join

Spec == Init /\ [][Next]_vars

(***************************************************************************)
(* What a caller can observe of a Table.                                   *)
(***************************************************************************)
\* the latest call
Last == hist[Len(hist)]

Called(op) == hist # <<>> /\ Last.op = op

\* the stored values of every column, in column order
ColData(w, t) == [j \in 1..Table_len(w, t) |-> DataOf(w, DictOf(w, t)[j].s)]

\* every column of the Table has the length shape reports
IsSmooth(w, t) ==
  \A j \in 1..Table_len(w, t) : Len(ColData(w, t)[j]) = Table_shape(w, t)[2]

\* the rows i(0), ..., i(shape[1] - 1) of a smooth Table
Rows(w, t) ==
  [k \in 1..Table_shape(w, t)[2] |-> Table_i(w, t, k - 1).ret]

(***************************************************************************)
(* C1 (smoothness invariant): every Table the caller holds, whichever      *)
(* constructor built it and whichever operations followed, has columns of  *)
(* one length, and shape[1] is that length.                                *)
(***************************************************************************)
C1_Smoothness == \A t \in roots : IsSmooth(World, t)

(***************************************************************************)
(* C2 (row-append atomicity): append_row(row) either succeeds, and then    *)
(* every column has grown by exactly the value the row holds for it, or it *)
(* raises, and then every column holds what it held before the call.       *)
(***************************************************************************)
C2_AppendAtomic ==
  Called("append_row") =>
    /\ Table_len(World, Last.t) = Table_len(pre, Last.t)
    /\ IF Last.exc = "ok"
       THEN \A j \in 1..Table_len(pre, Last.t) :
              ColData(World, Last.t)[j]
                = Append(ColData(pre, Last.t)[j], Last.args.row[j])
       ELSE ColData(World, Last.t) = ColData(pre, Last.t)

(***************************************************************************)
(* Ingest: an adapter builds a Table with Table.empty and appends one      *)
(* record after the other (aio/json.py, aio/csv.py read this way).         *)
(***************************************************************************)
\* the values of the records
IngestVals == {None, IntV(1), StrV(5)}

\* the result r of a constructor, as the tuple of the Tables it built
One(r) == Res(r.w, r.exc, <<r.ret>>)

\* the state in which the caller holds the Tables of r.ret, which r built
\* in an empty world, and the calls recorded so far are calls
Started(r, calls) ==
  /\ r.exc = "ok"
  /\ Holds(r.w)
  /\ roots = Range(r.ret)
  /\ hist = calls
  /\ pre = EmptyWorld

\* t = Table.empty(cols, dtypes) for distinct names and one dtype per name
InitIngest ==
  \E n \in 0..MaxCols :
    \E dts \in [1..n -> Types] :
      Started(One(Table_empty(EmptyWorld, SubSeq(ColNames, 1, n), dts)),
              <<[op |-> "empty", t |-> 0, exc |-> "ok", ret |-> <<1>>,
                 args |-> [NoArgs EXCEPT !.cols = SubSeq(ColNames, 1, n),
                                         !.dtypes = dts]]>>)

\* the records that are well-typed for the dtypes: every value is None or
\* an instance of its column's dtype
Records(dts) ==
  {row \in [1..Len(dts) -> IngestVals] :
     \A j \in 1..Len(dts) : row[j] = None \/ IsInstance(row[j], dts[j])}

\* t.append_row(record), for the next record of the source
ingest ==
  /\ Len(hist) <= MaxCalls
  /\ \E row \in Records(hist[1].args.dtypes) :
       Call("append_row", 1, [NoArgs EXCEPT !.row = row],
            Table_append_row(World, 1, row), "none")

SpecIngest == InitIngest /\ [][ingest]_vars

\* the run is an ingest: Table.empty, then append_row only
IsIngest ==
  /\ hist # <<>>
  /\ hist[1].op = "empty"
  /\ \A k \in 2..Len(hist) : hist[k].op = "append_row" /\ hist[k].t = 1

\* the table reports the declared columns, as many rows as records were
\* appended, and the k-th record as its k-th row
RoundTrip ==
  /\ \A k \in 2..Len(hist) : hist[k].exc = "ok"
  /\ Table_cols(World, 1) = hist[1].args.cols
  /\ Table_shape(World, 1) = <<Len(hist[1].args.cols), Len(hist) - 1>>
  /\ \A k \in 2..Len(hist) :
       /\ Table_i(World, 1, k - 2).exc = "ok"
       /\ Table_i(World, 1, k - 2).ret = hist[k].args.row

(***************************************************************************)
(* C3 as stated (ingest/export round trip): after Table.empty(cols,        *)
(* dtypes) and one append_row per well-typed record r_0..r_{n-1}, the      *)
(* table reports cols in the declared order, shape = (len(cols), n) and    *)
(* i(k) = r_k for every k, whatever cols is.                               *)
(***************************************************************************)
C3_RoundTrip == IsIngest => RoundTrip

(***************************************************************************)
(* C3 amended: the round trip holds when there is at least one column;     *)
(* with no column every append_row(()) succeeds and shape stays (0, 0).    *)
(***************************************************************************)
C3_RoundTripOfColumns ==
  IsIngest =>
    IF hist[1].args.cols # <<>> THEN RoundTrip
    ELSE /\ \A k \in 2..Len(hist) : hist[k].exc = "ok"
         /\ Table_cols(World, 1) = <<>>
         /\ Table_shape(World, 1) = <<0, 0>>

\* two different records were ingested into a table of two columns
C3_Ingested ==
  /\ IsIngest
  /\ Len(hist) = 3
  /\ Len(hist[1].args.cols) = 2
  /\ hist[2].args.row # hist[3].args.row
  /\ hist[3].exc = "ok"

(***************************************************************************)
(* Sorting and grouping: the caller holds a Table of a key column a and a  *)
(* column b that numbers the rows, and sorts and groups it.                *)
(***************************************************************************)
SortRows == 3

\* the values of the key column: None, values below and above dtype() and
\* dtype() itself
SortKeys(dtype) ==
  CASE dtype = "int" -> {None, IntV(-1), IntV(0), IntV(1)}
    [] dtype = "str" -> {None, StrV(1), StrV(5)}
    [] OTHER -> {None, IntV(1)}

\* t = Table.from_iterable([keys, [1, ..., n]], ("a", "b"), (dtype, int))
InitSort ==
  \E dtype \in Types, n \in 0..SortRows :
    \E keys \in [1..n -> SortKeys(dtype)] :
      Started(Bind(raw_cols(EmptyWorld, "list",
                            <<keys, [k \in 1..n |-> IntV(k)]>>),
                   LAMBDA raw :
                     One(Table_from_iterable(raw.w, raw.ret,
                                             Some(<<"a", "b">>),
                                             Some(<<dtype, "int">>)))),
              <<>>)

\* groups = t.group_by(col)
group_by ==
  /\ CanCall
  /\ \E t \in roots, col \in Range(ColNames) :
       Call("group_by", t, [NoArgs EXCEPT !.col = col],
            Table_group_by(World, t, col), "list")

SpecSort == InitSort /\ [][sorted]_vars

SpecGroup == InitSort /\ [][group_by]_vars

\* the values and the dtype of column c of a Table
Column(w, t, c) == DataOf(w, DictGet(DictOf(w, t), c))

DTypeOf(w, t, c) == w.seqs[DictGet(DictOf(w, t), c)].dtype

\* the key a value is to rank by: None ranks as dtype()
NullKey(v, dtype) == IF v = None THEN DefaultOf(dtype) ELSE v

NullKeys(w, t, c) ==
  [k \in 1..Len(Column(w, t, c)) |-> NullKey(Column(w, t, c)[k], DTypeOf(w, t, c))]

Perms(n) == {p \in [1..n -> 1..n] : \A i, j \in 1..n : p[i] = p[j] => i = j}

\* p lists the indices of keys in rising (falling) key order, equal keys
\* in index order
IsStableOrder(p, keys, desc) ==
  \A i, j \in 1..Len(keys) :
    i < j =>
      IF keys[p[i]] = keys[p[j]] THEN p[i] < p[j]
      ELSE IF desc THEN keys[p[j]][2] < keys[p[i]][2]
      ELSE keys[p[i]][2] < keys[p[j]][2]

\* rows is rows0 in the stable order of keys0
StablySorted(rows, rows0, keys0, desc) ==
  /\ Len(rows) = Len(rows0)
  /\ \E p \in Perms(Len(rows0)) :
       /\ IsStableOrder(p, keys0, desc)
       /\ rows = [k \in 1..Len(rows0) |-> rows0[p[k]]]

\* the latest call was op, on a column the Table had
OnColumn(op) == Called(op) /\ DictHas(DictOf(pre, Last.t), Last.args.col)

\* the latest call was op, on a typed column the Table had
OnTypedColumn(op) ==
  OnColumn(op) /\ DTypeOf(pre, Last.t, Last.args.col) \in {"int", "str"}

\* Table u has the schema of the Table just sorted and its rows, as they
\* were before the call, in the stable order of the keys
SortedFrom(u) ==
  /\ Table_cols(World, u) = Table_cols(pre, Last.t)
  /\ Table_dtypes(World, u) = Table_dtypes(pre, Last.t)
  /\ StablySorted(Rows(World, u), Rows(pre, Last.t),
                  NullKeys(pre, Last.t, Last.args.col), Last.args.desc)

\* Table t holds what it held before the latest call
Untouched(t) ==
  /\ Table_cols(World, t) = Table_cols(pre, t)
  /\ ColData(World, t) = ColData(pre, t)

(***************************************************************************)
(* C4 (sort stability): T.sorted(c, desc) on a column c of T returns a     *)
(* Table with T's names and dtypes whose rows are T's rows in key order,   *)
(* rows of equal keys in their order in T, and leaves T as it was.         *)
(***************************************************************************)
C4_SortStable ==
  OnColumn("sorted") =>
    /\ Last.exc = "ok"
    /\ SortedFrom(Last.ret[1])
    /\ Untouched(Last.t)

\* the call before the latest was T.sorted(c, desc) and returned S, and the
\* latest is S.sorted(c, desc)
Resorted ==
  /\ Len(hist) >= 2
  /\ Last.op = "sorted"
  /\ hist[Len(hist) - 1].op = "sorted"
  /\ hist[Len(hist) - 1].exc = "ok"
  /\ Last.t = hist[Len(hist) - 1].ret[1]
  /\ Last.args.col = hist[Len(hist) - 1].args.col
  /\ Last.args.desc = hist[Len(hist) - 1].args.desc

(***************************************************************************)
(* C5 (sort idempotence): when T.sorted(c) returned S, S.sorted(c) returns *)
(* a Table with the rows of S in the order of S.                           *)
(***************************************************************************)
C5_SortIdempotent ==
  Resorted =>
    /\ Last.exc = "ok"
    /\ Rows(World, Last.ret[1]) = Rows(World, Last.t)

\* a sorted Table of three rows was sorted again, its key column holds
\* None and a key twice, and the first sort had changed the order
C5_Resorted ==
  /\ Resorted
  /\ Last.exc = "ok"
  /\ None \in Range(Column(World, Last.t, Last.args.col))
  /\ Cardinality(Range(Column(World, Last.t, Last.args.col))) = 2
  /\ Len(Column(World, Last.t, Last.args.col)) = 3
  /\ Rows(World, Last.t) # Rows(World, hist[Len(hist) - 1].t)

RECURSIVE Flat(_, _)
Flat(w, refs) ==
  IF refs = <<>> THEN <<>> ELSE Rows(w, Head(refs)) \o Flat(w, Tail(refs))

\* the number of maximal runs of equal values in vals
Runs(vals) ==
  IF vals = <<>> THEN 0
  ELSE 1 + Cardinality({i \in 1..(Len(vals) - 1) : vals[i] # vals[i + 1]})

\* groups lists one Table per run of equal c-values of the sorted Table
\* s.ret: as many Tables as runs, none twice, each of one c-value, and
\* their rows in order are the rows of s.ret
Partitions(groups, s, c) ==
  /\ Len(groups) = Runs(Column(s.w, s.ret, c))
  /\ \A i, j \in 1..Len(groups) : groups[i] = groups[j] => i = j
  /\ \A j \in 1..Len(groups) :
       Cardinality(Range(Column(World, groups[j], c))) = 1
  /\ Flat(World, groups) = Rows(s.w, s.ret)

(***************************************************************************)
(* C7 (group_by partition): T.group_by(c), for a column c that sorted(c)   *)
(* orders and a T of one row or more, returns one Table per maximal run of *)
(* equal c-values of T.sorted(c), in order, each holding the rows of its   *)
(* run; every row is in one of the Tables and no Table is listed twice.    *)
(***************************************************************************)
C7_GroupPartition ==
  (OnTypedColumn("group_by") /\ Table_shape(pre, Last.t)[2] >= 1) =>
    /\ Last.exc = "ok"
    /\ Partitions(Last.ret, Table_sorted(pre, Last.t, Last.args.col, FALSE),
                  Last.args.col)

(***************************************************************************)
(* Set-like combination: the caller holds two Tables A and B and combines  *)
(* them with union_all, union and intersect.                               *)
(***************************************************************************)
\* the values of the cells
SetVals == {IntV(1), IntV(2)}

\* the raw columns of a Table of n columns and m rows, one per sequence of
\* m rows
SetCols(n, m) ==
  {[j \in 1..n |-> [k \in 1..m |-> rows[k][j]]] :
     rows \in [1..m -> [1..n -> SetVals]]}

\* the column names of B, given those of A: the same, the same in reverse
\* order, or others
OtherNames(names) ==
  {names, [j \in 1..Len(names) |-> names[Len(names) + 1 - j]],
   [j \in 1..Len(names) |-> IF j = Len(names) THEN "z" ELSE names[j]]}

\* A = Table.from_iterable(a, names, dtypes);
\* B = Table.from_iterable(b, names2, dtypes)
two_tables(a, names, b, names2, dtypes) ==
  Bind(raw_cols(EmptyWorld, "list", a \o b),
    LAMBDA raw :
      Bind(Table_from_iterable(raw.w, SubSeq(raw.ret, 1, Len(a)),
                               Some(names), Some(dtypes)),
        LAMBDA ta :
          Bind(Table_from_iterable(ta.w,
                                   SubSeq(raw.ret, Len(a) + 1, Len(a) + Len(b)),
                                   Some(names2), Some(dtypes)),
               LAMBDA tb : Res(tb.w, "ok", <<ta.ret, tb.ret>>))))

InitSet ==
  \E n \in 1..MaxCols, ma \in 0..MaxRows, mb \in 0..MaxRows, dtype \in DTypes :
    \E a \in SetCols(n, ma), b \in SetCols(n, mb),
       names2 \in OtherNames(SubSeq(ColNames, 1, n)) :
      Started(two_tables(a, SubSeq(ColNames, 1, n), b, names2,
                         [j \in 1..n |-> dtype]),
              <<>>)

\* u = t.union(other)
union ==
  /\ CanCall
  /\ \E t \in roots, other \in roots :
       Call("union", t, [NoArgs EXCEPT !.other = other],
            Table_union(World, t, other), "table")

\* u = t.intersect(other) for two Tables; on one and the same Table the
\* loop over self and contains_row share the counter self.it
intersect ==
  /\ CanCall
  /\ \E t \in roots :
     \E other \in roots \ {t} :
       Call("intersect", t, [NoArgs EXCEPT !.other = other],
            Table_intersect(World, t, other), "table")

NextSet ==
  \/ union_all
  \/ union
  \/ intersect

SpecSet == InitSet /\ [][NextSet]_vars

\* the rows of a Table with the columns taken in the order cols
RowsBy(w, t, cols) ==
  [k \in 1..Table_shape(w, t)[2] |->
     [j \in 1..Len(cols) |-> Column(w, t, cols[j])[k]]]

\* rows without the rows that occurred before
RECURSIVE Distinct(_)
Distinct(rows) ==
  IF rows = <<>> THEN <<>>
  ELSE IF rows[Len(rows)] \in Range(SubSeq(rows, 1, Len(rows) - 1))
  THEN Distinct(SubSeq(rows, 1, Len(rows) - 1))
  ELSE Append(Distinct(SubSeq(rows, 1, Len(rows) - 1)), rows[Len(rows)])

\* Table u has the schema that t had before the latest call
SchemaOf(u, t) ==
  /\ Table_cols(World, u) = Table_cols(pre, t)
  /\ Table_dtypes(World, u) = Table_dtypes(pre, t)

(***************************************************************************)
(* C8 (union_all): for two Tables of the same column names union_all       *)
(* returns a Table of self's rows followed by other's rows, the values of  *)
(* other taken by column name, and leaves both as they were; for different *)
(* column names it raises ValueError.                                      *)
(***************************************************************************)
C8_UnionAll ==
  Called("union_all") =>
    IF same_keys(pre, Last.t, Last.args.other)
    THEN /\ Last.exc = "ok"
         /\ SchemaOf(Last.ret[1], Last.t)
         /\ Rows(World, Last.ret[1])
              = Rows(pre, Last.t)
                  \o RowsBy(pre, Last.args.other, Table_cols(pre, Last.t))
         /\ Untouched(Last.t)
         /\ Untouched(Last.args.other)
    ELSE Last.exc = "ValueError"

(***************************************************************************)
(* C9 (union): for two Tables over the same columns union returns, without *)
(* raising, the distinct rows of other and then of self, each once, in the *)
(* order of their first occurrence.                                        *)
(***************************************************************************)
C9_Union ==
  (Called("union")
     /\ Table_cols(pre, Last.t) = Table_cols(pre, Last.args.other)) =>
    /\ Last.exc = "ok"
    /\ Rows(World, Last.ret[1])
         = Distinct(Rows(pre, Last.args.other) \o Rows(pre, Last.t))

(***************************************************************************)
(* C10 (intersect): for two Tables of the same column tuple intersect      *)
(* returns a Table of self's schema holding, in self's order, the rows of  *)
(* self that are rows of other; for different column tuples it raises      *)
(* ValueError.                                                             *)
(***************************************************************************)
C10_Intersect ==
  Called("intersect") =>
    IF Table_cols(pre, Last.t) = Table_cols(pre, Last.args.other)
    THEN /\ Last.exc = "ok"
         /\ SchemaOf(Last.ret[1], Last.t)
         /\ Rows(World, Last.ret[1])
              = SelectSeq(Rows(pre, Last.t),
                          LAMBDA r : r \in Range(Rows(pre, Last.args.other)))
    ELSE Last.exc = "ValueError"


(***************************************************************************)
(* Table: queries.                                                         *)
(***************************************************************************)
\* the loop "for i in range(len(self)): if self.i(i) == t: res += 1" of
\* Table.row_count, at index i; len(self) is the number of columns
RECURSIVE count_loop(_, _, _, _, _)
count_loop(w, t, row, i, res) ==
  IF i >= Table_len(w, t) THEN Res(w, "ok", res)
  ELSE Bind(Table_i(w, t, i),
            LAMBDA r :
              count_loop(w, t, row, i + 1,
                         IF r.ret = row THEN res + 1 ELSE res))

\* Table.row_count(row)
Table_row_count(w, t, row) ==
  IF Len(row) # Table_shape(w, t)[1] THEN Res(w, "ValueError", 0)
  ELSE count_loop(w, t, row, 0, 0)

\* a faulty loop of where, which appends the first row for every match
RECURSIVE where_loop_first(_, _, _, _, _, _)
where_loop_first(w, t, vals, func, empt, i) ==
  IF i >= Len(vals) THEN Res(w, "ok", empt)
  ELSE IF vals[i + 1] \notin func
  THEN where_loop_first(w, t, vals, func, empt, i + 1)
  ELSE Bind(Table_i(w, t, 0),
         LAMBDA row :
           Bind(Table_append_row(w, empt, row.ret),
                LAMBDA a : where_loop_first(a.w, t, vals, func, empt, i + 1)))

\* the loop "for i, row in enumerate(self[col]): if func(row):
\* empt.append_row(self.i(i))" of Table.where, at index i; vals is the
\* data of self[col], and func is the set of the values func is true of
RECURSIVE where_loop(_, _, _, _, _, _)
where_loop(w, t, vals, func, empt, i) ==
  IF i >= Len(vals) THEN Res(w, "ok", empt)
  ELSE IF vals[i + 1] \notin func
  THEN where_loop(w, t, vals, func, empt, i + 1)
  ELSE Bind(Table_i(w, t, i),
         LAMBDA row :
           Bind(Table_append_row(w, empt, row.ret),
                LAMBDA a : where_loop(a.w, t, vals, func, empt, i + 1)))

\* Table.where(col, func) for a callable func
Table_where(w, t, col, func) ==
  Bind(Table_empty(w, Table_cols(w, t), Table_dtypes(w, t)),
    LAMBDA e :
      IF ~DictHas(DictOf(w, t), col) THEN Res(e.w, "KeyError", 0)
      ELSE where_loop(e.w, t, DataOf(w, DictGet(DictOf(w, t), col)), func,
                      e.ret, 0))

\* argsort(pattern), as Table.sorted_by_pattern calls it: the parameter
\* dtype of argsort has no default, so the call raises TypeError
argsort_of(w, pattern) == Res(w, "TypeError", <<>>)

\* Table.sorted_by_pattern(pattern): the list of the reordered columns is
\* built by calling argsort(pattern) once per column, and from_iterable
\* then takes the list, which is empty for a Table of no columns
Table_sorted_by_pattern(w, t, pattern) ==
  IF Len(pattern) # Table_len(w, t) THEN Res(w, "ValueError", 0)
  ELSE IF Table_len(w, t) # 0
  THEN argsort_of(w, pattern)
  ELSE Table_from_iterable(w, <<>>, Nothing, Nothing)

(***************************************************************************)
(* Table: copies.                                                          *)
(***************************************************************************)
\* copy(self): Table defines no __copy__, so the copy is a new Table
\* object with the attributes of self, the very dict self._data among them
Table_copy(w, t) ==
  Res([w EXCEPT !.tabs = Append(@, w.tabs[t])], "ok", Len(w.tabs) + 1)

\* Table.dropped_col(col)
Table_dropped_col(w, t, col) ==
  Bind(Table_copy(w, t), LAMBDA c : Table_drop_col(c.w, c.ret, col))

\* Table.dropped_row(index)
Table_dropped_row(w, t, index) ==
  Bind(Table_copy(w, t), LAMBDA c : Table_drop_row(c.w, c.ret, index))

\* Table.dropped_nones
Table_dropped_nones(w, t) ==
  Bind(Table_copy(w, t), LAMBDA c : Table_drop_nones(c.w, c.ret))

\* Table.inner_join(other, self_on, other_on)
Table_inner_join(w, t, other, self_on, other_on) ==
  Bind(Table_left_join(w, t, other, self_on, other_on),
    LAMBDA j :
      Bind(Table_dropped_col(j.w, j.ret, other_on),
           LAMBDA d : Table_dropped_nones(d.w, d.ret)))

(***************************************************************************)
(* Queries and copies: the caller holds one Table and asks for counts,     *)
(* selections, reorderings and reduced copies of it.                       *)
(***************************************************************************)
\* the columns the caller passes in and their dtype: typed columns are
\* stored as new lists, untyped ones as the list or tuple passed in
QueryKinds == {<<"list", "int">>, <<"list", "object">>, <<"tuple", "object">>}

\* t = Table.from_iterable(columns, names, dtypes): n columns of one
\* dtype and m rows
InitQuery ==
  \E n \in 1..MaxCols, m \in 0..MaxRows, kd \in QueryKinds :
    \E items \in [1..n -> [1..m -> Vals]] :
      Started(Bind(raw_cols(EmptyWorld, kd[1], items),
                   LAMBDA raw :
                     One(Table_from_iterable(raw.w, raw.ret,
                                             Some(SubSeq(ColNames, 1, n)),
                                             Some([j \in 1..n |-> kd[2]])))),
              <<[op |-> "from_iterable", t |-> 0, args |-> NoArgs,
                 exc |-> "ok", ret |-> <<1>>]>>)

\* a call that ended as r and returned a value that is not a Table
Answer(op, t, args, r) ==
  /\ pre' = World
  /\ Becomes(r.w)
  /\ roots' = roots
  /\ hist' = Append(hist, [op |-> op, t |-> t, args |-> args, exc |-> r.exc,
                           ret |-> IF r.exc = "ok" THEN <<r.ret>> ELSE <<>>])

\* the rows a caller may ask about: of every length up to MaxCols
AnyRows == UNION {[1..n -> Vals] : n \in 0..MaxCols}

\* n = t.row_count(row)
row_count ==
  /\ CanCall
  /\ \E t \in roots, row \in AnyRows :
       Answer("row_count", t, [NoArgs EXCEPT !.row = row],
              Table_row_count(World, t, row))

\* b = t.contains_row(row)
contains_row ==
  /\ CanCall
  /\ \E t \in roots, row \in AnyRows :
       Answer("contains_row", t, [NoArgs EXCEPT !.row = row],
              Table_contains_row(World, t, row))

\* the number of indices k in [0, shape[1]) with i(k) == row
Occurrences(w, t, row) ==
  Cardinality({k \in 1..Table_shape(w, t)[2] : Rows(w, t)[k] = row})

(***************************************************************************)
(* C11 (row membership and count): for a row as long as the Table has      *)
(* columns row_count returns the number of indices k below shape[1] with   *)
(* i(k) == row and contains_row returns whether that number is positive;   *)
(* for a row of another length both raise ValueError.                      *)
(***************************************************************************)
C11_RowMembership ==
  (Called("row_count") \/ Called("contains_row")) =>
    IF Len(Last.args.row) = Table_len(pre, Last.t)
    THEN /\ Last.exc = "ok"
         /\ Last.ret =
              IF Last.op = "row_count"
              THEN <<Occurrences(pre, Last.t, Last.args.row)>>
              ELSE <<Occurrences(pre, Last.t, Last.args.row) > 0>>
    ELSE Last.exc = "ValueError"

(***************************************************************************)
(* Joins: the caller holds two Tables A and B, each of a key column and,   *)
(* for two columns, a column that numbers the rows, and joins them.        *)
(***************************************************************************)
JoinRows == 2

\* the values of the key columns: a key may occur once, several times or
\* not at all in the other Table
JoinKeys == {None, IntV(1)}

\* the column names of B; those of A are ("a", "b")
JoinNames ==
  {<<"a">>, <<"a", "c">>, <<"c", "a">>, <<"k", "c">>, <<"b", "c">>}

\* the raw columns of a Table whose column named key holds keys and whose
\* other column numbers the rows
join_cols(names, key, keys) ==
  [j \in 1..Len(names) |->
     IF names[j] = key THEN keys ELSE [k \in 1..Len(keys) |-> IntV(k)]]

\* the name of the key column of B
key_of(names) == IF "a" \in Range(names) THEN "a" ELSE names[1]

\* the dtypes of A and of B
JoinDTypes == {<<"int", "int">>, <<"object", "object">>, <<"int", "object">>}

\* A, B = Table.from_iterable([keys, [1, ..., n]], ("a", "b"), (da, da)),
\*        Table.from_iterable(columns, names, (db, ...))
InitJoin ==
  \E dts \in JoinDTypes, names \in JoinNames,
     n \in 0..JoinRows, m \in 0..JoinRows :
    \E ka \in [1..n -> JoinKeys], kb \in [1..m -> JoinKeys] :
      Started(Bind(raw_cols(EmptyWorld, "list",
                            join_cols(<<"a", "b">>, "a", ka)
                              \o join_cols(names, key_of(names), kb)),
                LAMBDA raw :
                  Bind(Table_from_iterable(raw.w, SubSeq(raw.ret, 1, 2),
                                           Some(<<"a", "b">>),
                                           Some(<<dts[1], dts[1]>>)),
                    LAMBDA ta :
                      Bind(Table_from_iterable(ta.w,
                             SubSeq(raw.ret, 3, 2 + Len(names)), Some(names),
                             Some([j \in 1..Len(names) |-> dts[2]])),
                        LAMBDA tb : Res(tb.w, "ok", <<ta.ret, tb.ret>>)))),
              <<[op |-> "from_iterable", t |-> 0, args |-> NoArgs,
                 exc |-> "ok", ret |-> <<1, 2>>]>>)

SpecJoin == InitJoin /\ [][left_join]_vars

\* the Table the latest call returned
Result == Last.ret[1]

\* the latest call was a join that did not raise
Joined == Called("left_join") /\ Last.exc = "ok"

\* the two Tables of the latest join pass the preconditions: the key
\* columns have one dtype, and the Tables share no column name but a join
\* key common to both
JoinAccepted ==
  /\ DTypeOf(pre, Last.t, Last.args.col)
       = DTypeOf(pre, Last.args.other, Last.args.right_on)
  /\ Range(Table_cols(pre, Last.t)) \cap Range(Table_cols(pre, Last.args.other))
       = IF Last.args.col = Last.args.right_on THEN {Last.args.col} ELSE {}

(***************************************************************************)
(* C12 (join cardinality): a left_join the two Tables are accepted for     *)
(* returns a Table of as many rows as self, and row k of it, restricted to *)
(* self's columns, is row k of self.                                       *)
(***************************************************************************)
C12_JoinCardinality ==
  (Called("left_join") /\ JoinAccepted) =>
    /\ Last.exc = "ok"
    /\ Table_shape(World, Result)[2] = Table_shape(pre, Last.t)[2]
    /\ RowsBy(World, Result, Table_cols(pre, Last.t)) = Rows(pre, Last.t)

\* a join returned, of a self with rows: some with no match in right, and
\* with right holding rows
C12_JoinedRows ==
  /\ Joined
  /\ Table_shape(pre, Last.t)[2] = JoinRows
  /\ Table_shape(pre, Last.args.other)[2] > 0
  /\ \E k \in 1..JoinRows :
       Column(pre, Last.t, Last.args.col)[k]
         \notin Range(Column(pre, Last.args.other, Last.args.right_on))

\* the index (from 1) of the first row of the right Table whose key is v,
\* 0 when there is none
FirstMatch(v) ==
  IF v \in Range(Column(pre, Last.args.other, Last.args.right_on))
  THEN MinOf({k \in 1..Len(Column(pre, Last.args.other, Last.args.right_on)) :
                Column(pre, Last.args.other, Last.args.right_on)[k] = v})
  ELSE 0

\* the columns joined in: right's columns that self does not have, in
\* right's order
JoinedIn ==
  SelectSeq(Table_cols(pre, Last.args.other),
            LAMBDA c : c \notin Range(Table_cols(pre, Last.t)))

\* what the joined-in columns are to hold in row k
MatchOf(k) ==
  IF FirstMatch(Column(pre, Last.t, Last.args.col)[k]) = 0
  THEN [j \in 1..Len(JoinedIn) |-> None]
  ELSE RowsBy(pre, Last.args.other, JoinedIn)[
         FirstMatch(Column(pre, Last.t, Last.args.col)[k])]

(***************************************************************************)
(* C13 (join first-match content): in the Table a left_join returns,       *)
(* right's columns follow self's columns in right's order, and in every    *)
(* row k they hold the values of the first row of right whose right_on     *)
(* value equals self's left_on value in row k, and None in every joined-in *)
(* column when right has no such row.                                      *)
(***************************************************************************)
C13_JoinFirstMatch ==
  Joined =>
    /\ Table_cols(World, Result) = Table_cols(pre, Last.t) \o JoinedIn
    /\ RowsBy(World, Result, JoinedIn)
         = [k \in 1..Table_shape(pre, Last.t)[2] |-> MatchOf(k)]

\* a join returned in which a key of self has two matches in right and
\* another key has none
C13_SeveralMatches ==
  /\ Joined
  /\ Len(JoinedIn) > 0
  /\ \E k \in 1..Table_shape(pre, Last.t)[2] :
       Cardinality({i \in 1..Table_shape(pre, Last.args.other)[2] :
                      Column(pre, Last.args.other, Last.args.right_on)[i]
                        = Column(pre, Last.t, Last.args.col)[k]}) > 1
  /\ \E k \in 1..Table_shape(pre, Last.t)[2] :
       FirstMatch(Column(pre, Last.t, Last.args.col)[k]) = 0

inner_join ==
  /\ CanCall
  /\ \E t \in roots, other \in roots :
     \E self_on \in Range(Table_cols(World, t)),
        other_on \in Range(Table_cols(World, other)) :
       Call("inner_join", t,
            [NoArgs EXCEPT !.other = other, !.col = self_on,
                           !.right_on = other_on],
            Table_inner_join(World, t, other, self_on, other_on), "table")

SpecInner == InitJoin /\ [][inner_join]_vars

\* the indices (from 1) of the rows of self whose key has a match in other
Matched ==
  SelectSeq([k \in 1..Table_shape(pre, Last.t)[2] |-> k],
            LAMBDA k : FirstMatch(Column(pre, Last.t, Last.args.col)[k]) # 0)

(***************************************************************************)
(* C15 (inner_join): for two Tables left_join accepts, inner_join returns  *)
(* the left-join result without the rows whose key has no match in other:  *)
(* the join key is a column of the result, and every row of self whose key *)
(* has a match is kept, with the values of its first match, also when it   *)
(* holds None in some column.                                              *)
(***************************************************************************)
C15_InnerJoin ==
  (Called("inner_join") /\ JoinAccepted) =>
    /\ Last.exc = "ok"
    /\ Last.args.col \in Range(Table_cols(World, Result))
    /\ Table_cols(World, Result) = Table_cols(pre, Last.t) \o JoinedIn
    /\ Rows(World, Result)
         = [i \in 1..Len(Matched) |->
              Rows(pre, Last.t)[Matched[i]] \o MatchOf(Matched[i])]

\* u = t.dropped_col(col)
dropped_col ==
  /\ CanCall
  /\ \E t \in roots, col \in Range(ColNames) :
       Call("dropped_col", t, [NoArgs EXCEPT !.col = col],
            Table_dropped_col(World, t, col), "table")

\* u = t.dropped_row(index)
dropped_row ==
  /\ CanCall
  /\ \E t \in roots, index \in 0..MaxRows :
       Call("dropped_row", t, [NoArgs EXCEPT !.index = index],
            Table_dropped_row(World, t, index), "table")

\* u = t.dropped_nones
dropped_nones ==
  /\ CanCall
  /\ \E t \in roots :
       Call("dropped_nones", t, NoArgs, Table_dropped_nones(World, t), "table")

\* rows without the row at index (from 0)
WithoutRow(rows, index) ==
  [k \in 1..(Len(rows) - 1) |-> IF k <= index THEN rows[k] ELSE rows[k + 1]]

\* the latest call asked for a reduced copy that exists: without a column
\* the Table has, without a row it has, or without its rows with None
DroppedCopy ==
  \/ OnColumn("dropped_col")
  \/ Called("dropped_row") /\ Last.args.index < Table_shape(pre, Last.t)[2]
  \/ Called("dropped_nones")

\* the Table u is the receiver as it was, reduced as the latest call asked
ReducedTo(u) ==
  CASE Last.op = "dropped_col" ->
         /\ Table_cols(World, u)
              = SelectSeq(Table_cols(pre, Last.t), LAMBDA c : c # Last.args.col)
         /\ Rows(World, u) = RowsBy(pre, Last.t, Table_cols(World, u))
    [] Last.op = "dropped_row" ->
         /\ Table_cols(World, u) = Table_cols(pre, Last.t)
         /\ Rows(World, u) = WithoutRow(Rows(pre, Last.t), Last.args.index)
    [] OTHER ->
         /\ Table_cols(World, u) = Table_cols(pre, Last.t)
         /\ Rows(World, u)
              = SelectSeq(Rows(pre, Last.t), LAMBDA r : ~has_none(r))

(***************************************************************************)
(* C16 (non-mutating drops): dropped_col(col), dropped_row(index) and      *)
(* dropped_nones return a Table without the column, the row or the rows    *)
(* that hold None, and the receiver keeps the columns and the rows it had  *)
(* before the call.                                                        *)
(***************************************************************************)
C16_DroppedCopies ==
  DroppedCopy =>
    /\ Last.exc = "ok"
    /\ ReducedTo(Result)
    /\ Untouched(Last.t)

(***************************************************************************)
(* C17 (drop_nones): on a Table whose columns have one length drop_nones   *)
(* returns, and the Table then holds the rows it held that contained no    *)
(* None, in their order, and no others.                                    *)
(***************************************************************************)
C17_DropNones ==
  (Called("drop_nones") /\ IsSmooth(pre, Last.t)) =>
    /\ Last.exc = "ok"
    /\ Table_cols(World, Last.t) = Table_cols(pre, Last.t)
    /\ Rows(World, Last.t)
         = SelectSeq(Rows(pre, Last.t), LAMBDA r : ~has_none(r))

\* u = t.where(col, func) for a column of t; func is given by the values
\* it is true of
where ==
  /\ CanCall
  /\ \E t \in roots :
     \E col \in Range(Table_cols(World, t)), func \in SUBSET Vals :
       Call("where", t, [NoArgs EXCEPT !.col = col, !.func = func],
            Table_where(World, t, col, func), "table")

SpecWhere == InitQuery /\ [][where]_vars

\* the indices (from 1) of the rows the predicate of the latest call is
\* true of
Selected ==
  SelectSeq([k \in 1..Table_shape(pre, Last.t)[2] |-> k],
            LAMBDA k : Column(pre, Last.t, Last.args.col)[k] \in Last.args.func)

(***************************************************************************)
(* C18 (where): where(col, p) on a column of T returns a new Table with    *)
(* T's columns and dtypes that holds the rows T.i(k) with p(T[col][k])     *)
(* true, in increasing k, and no others; T is unchanged.                   *)
(***************************************************************************)
C18_Where ==
  OnColumn("where") =>
    /\ Last.exc = "ok"
    /\ Result > Len(pre.tabs)
    /\ SchemaOf(Result, Last.t)
    /\ Rows(World, Result)
         = [i \in 1..Len(Selected) |-> Rows(pre, Last.t)[Selected[i]]]
    /\ Untouched(Last.t)

\* where returned the second row of a Table and not the first, which
\* differs
C18_SecondRow ==
  /\ OnColumn("where")
  /\ Last.exc = "ok"
  /\ Selected = <<2>>
  /\ Rows(pre, Last.t)[1] # Rows(pre, Last.t)[2]

\* the patterns a caller may pass: the permutations of 0 .. n - 1 for the
\* lengths up to MaxRows
Patterns ==
  UNION {{p \in [1..n -> 0..(n - 1)] :
            \A i, j \in 1..n : p[i] = p[j] => i = j} : n \in 0..MaxRows}

\* u = t.sorted_by_pattern(pattern)
sorted_by_pattern ==
  /\ CanCall
  /\ \E t \in roots, pattern \in Patterns :
       Call("sorted_by_pattern", t, [NoArgs EXCEPT !.pattern = pattern],
            Table_sorted_by_pattern(World, t, pattern), "table")

\* the permutation that sorts pattern: position k holds the index (from 1)
\* of the k-th smallest entry
Sorting(pattern) ==
  [k \in 1..Len(pattern) |->
     CHOOSE i \in 1..Len(pattern) : pattern[i] = k - 1]

(***************************************************************************)
(* C19 (sorted_by_pattern): for a pattern as long as the Table has rows    *)
(* sorted_by_pattern returns the Table's rows reordered by the permutation *)
(* that sorts the pattern: row k of the result is row argsort(pattern)[k]  *)
(* of the Table; for a pattern of another length it raises ValueError.     *)
(***************************************************************************)
C19_SortedByPattern ==
  Called("sorted_by_pattern") =>
    IF Len(Last.args.pattern) # Table_shape(pre, Last.t)[2]
    THEN Last.exc = "ValueError"
    ELSE /\ Last.exc = "ok"
         /\ Rows(World, Result)
              = [k \in 1..Len(Last.args.pattern) |->
                   Rows(pre, Last.t)[Sorting(Last.args.pattern)[k]]]

(***************************************************************************)
(* Table.empty with any names and dtypes.                                  *)
(***************************************************************************)
\* the names a caller may pass, repeated ones among them
AnyNames == UNION {[1..n -> {"a", "b"}] : n \in 0..MaxCols}

\* the dtypes a caller may pass: types and None, which is not a type
AnyDTypes == UNION {[1..n -> {"int", "str", "None"}] : n \in 0..MaxCols}

\* t = Table.empty(cols, dtypes)
empty_any ==
  /\ CanCall
  /\ \E cols \in AnyNames, dts \in AnyDTypes :
       Call("empty", 0, [NoArgs EXCEPT !.cols = cols, !.dtypes = dts],
            Table_empty(World, cols, dts), "table")

SpecEmpty == Init /\ [][empty_any]_vars

\* the names are not unique
Repeated(names) == Cardinality(Range(names)) # Len(names)

\* some dtype given for a name is not a type
NotTypes(names, dts) ==
  \E j \in 1..Len(dts) : j <= Len(names) /\ dts[j] \notin Types

\* the exceptions the arguments of the latest call are to raise
Due ==
  (IF Repeated(Last.args.cols) THEN {"ValueError"} ELSE {})
    \cup (IF NotTypes(Last.args.cols, Last.args.dtypes) THEN {"TypeError"}
          ELSE {})

(***************************************************************************)
(* C20 (Table.empty): Table.empty(cols, dtypes) raises ValueError for      *)
(* names that are not unique and TypeError for a dtype that is not a type, *)
(* and otherwise returns a Table of no rows with one column per name, in   *)
(* the order given and with the dtype at the name's position; it never     *)
(* returns a Table of fewer columns than names.                            *)
(***************************************************************************)
C20_Empty ==
  Called("empty") =>
    IF Due # {} THEN Last.exc \in Due
    ELSE /\ Last.exc = "ok"
         /\ Table_cols(World, Result) = Last.args.cols
         /\ Table_dtypes(World, Result)
              = SubSeq(Last.args.dtypes, 1, Len(Last.args.cols))
         /\ \A j \in 1..Table_len(World, Result) :
              ColData(World, Result)[j] = <<>>

NextQuery ==
  \/ row_count
  \/ contains_row
  \/ dropped_col
  \/ dropped_row
  \/ dropped_nones
  \/ sorted_by_pattern

SpecQuery == InitQuery /\ [][NextQuery]_vars

(***************************************************************************)
(* Seq: transforms.                                                        *)
(***************************************************************************)
\* a new Seq of the receiver's name over a new list or tuple of items:
\* Seq(items, self.name, dtype)
Seq_over(w, kind, items, name, dtype) ==
  Seq_init(new_list(w, kind, items), Len(w.lists) + 1, name, dtype)

\* the smaller of two numbers
Least(a, b) == IF a < b THEN a ELSE b

\* Seq.head(n) for n >= 0: self.data[:n]
Seq_head(w, s, n) ==
  Seq_over(w, w.lists[w.seqs[s].data].kind,
           SubSeq(DataOf(w, s), 1, Least(n, Seq_len(w, s))),
           w.seqs[s].name, w.seqs[s].dtype)

\* Seq.tail(n) for n >= 0: self.data[-n:], and -0 is 0
Seq_tail(w, s, n) ==
  Seq_over(w, w.lists[w.seqs[s].data].kind,
           IF n = 0 THEN DataOf(w, s)
           ELSE SubSeq(DataOf(w, s), Seq_len(w, s) - Least(n, Seq_len(w, s)) + 1,
                       Seq_len(w, s)),
           w.seqs[s].name, w.seqs[s].dtype)

\* Seq.reverse(): self.data[::-1]
Seq_reverse(w, s) ==
  Seq_over(w, w.lists[w.seqs[s].data].kind,
           [j \in 1..Seq_len(w, s) |-> DataOf(w, s)[Seq_len(w, s) + 1 - j]],
           w.seqs[s].name, w.seqs[s].dtype)

\* Seq.sorted(desc): sorted(self.data, reverse=desc) is a new list
Seq_sorted(w, s, desc) ==
  Bind(sorted_range(w, DataOf(w, s), desc),
       LAMBDA p :
         Seq_over(w, "list",
                  [j \in 1..Seq_len(w, s) |-> DataOf(w, s)[p.ret[j]]],
                  w.seqs[s].name, w.seqs[s].dtype))

\* Seq.filter(f): list(filter(f, self.data)); f is the set of the values
\* f is true of
Seq_filter(w, s, f) ==
  Seq_over(w, "list", SelectSeq(DataOf(w, s), LAMBDA v : v \in f),
           w.seqs[s].name, w.seqs[s].dtype)

\* Seq.map(f): list(map(f, self.data)); f is a function on the values
Seq_map(w, s, f) ==
  Seq_over(w, "list", [j \in 1..Seq_len(w, s) |-> f[DataOf(w, s)[j]]],
           w.seqs[s].name, w.seqs[s].dtype)

\* Seq.as_type(dtype): Seq(self.data, self.name, dtype), on the very
\* sequence the receiver stores
Seq_as_type(w, s, dtype) ==
  Seq_init(w, w.seqs[s].data, w.seqs[s].name, dtype)

(***************************************************************************)
(* Columns: the caller holds one Seq, and the Seqs the calls return; roots *)
(* holds the references of these Seqs.                                     *)
(***************************************************************************)
\* the values of the elements: None, 1 and "a"
SeqVals == {None, IntV(1), StrV(5)}

\* s = Seq(items, "a", dtype), items a list or a tuple
InitSeq ==
  \E n \in 0..MaxRows, kind \in {"list", "tuple"}, dtype \in Types :
    \E items \in [1..n -> SeqVals] :
      Started(One(Seq_over(EmptyWorld, kind, items, "a", dtype)), <<>>)

\* s.append(value); the record holds the value as row[1]
append ==
  /\ CanCall
  /\ \E s \in roots, value \in SeqVals :
       Call("append", s, [NoArgs EXCEPT !.row = <<value>>],
            Seq_append(World, s, value), "table")

\* the data, the name and the dtype of Seq s
SeqState(w, s) == <<DataOf(w, s), w.seqs[s].name, w.seqs[s].dtype>>

(***************************************************************************)
(* C21 (typed append): Seq.append(value) adds the value at the end and     *)
(* returns the receiver when the value is None or an instance of the       *)
(* dtype, and otherwise raises TypeError and leaves the column unchanged.  *)
(***************************************************************************)
C21_TypedAppend ==
  Called("append") =>
    IF Last.args.row[1] = None
         \/ IsInstance(Last.args.row[1], pre.seqs[Last.t].dtype)
    THEN /\ Last.exc = "ok"
         /\ Last.ret = <<Last.t>>
         /\ DataOf(World, Last.t) = Append(DataOf(pre, Last.t), Last.args.row[1])
    ELSE /\ Last.exc = "TypeError"
         /\ SeqState(World, Last.t) = SeqState(pre, Last.t)

\* the dtypes a caller may pass to as_type: types and None, which is not a
\* type
AsTypes == Types \cup {"None"}

\* u = s.as_type(dtype); the record holds the dtype as dtypes[1]
as_type ==
  /\ CanCall
  /\ \E s \in roots, dtype \in AsTypes :
       Call("as_type", s, [NoArgs EXCEPT !.dtypes = <<dtype>>],
            Seq_as_type(World, s, dtype), "table")

\* the counts a caller may pass to head, tail and grow
Counts == 0..(MaxRows + 1)

\* u = s.head(n); the record holds n as index
head ==
  /\ CanCall
  /\ \E s \in roots, n \in Counts :
       Call("head", s, [NoArgs EXCEPT !.index = n], Seq_head(World, s, n),
            "table")

\* u = s.tail(n); the record holds n as index
tail ==
  /\ CanCall
  /\ \E s \in roots, n \in Counts :
       Call("tail", s, [NoArgs EXCEPT !.index = n], Seq_tail(World, s, n),
            "table")

\* u = s.reverse()
reverse ==
  /\ CanCall
  /\ \E s \in roots :
       Call("reverse", s, NoArgs, Seq_reverse(World, s), "table")

\* u = s.sorted(desc); the name sorted is the Table's
Seq_sorted_call ==
  /\ CanCall
  /\ \E s \in roots, desc \in BOOLEAN :
       Call("Seq.sorted", s, [NoArgs EXCEPT !.desc = desc],
            Seq_sorted(World, s, desc), "table")

\* u = s.filter(f)
filter ==
  /\ CanCall
  /\ \E s \in roots, f \in {{}, {IntV(1)}, SeqVals} :
       Call("filter", s, [NoArgs EXCEPT !.func = f], Seq_filter(World, s, f),
            "table")

\* every value a Seq of the model may hold
AllVals ==
  {None} \cup {IntV(n) : n \in -1..1} \cup {StrV(k) : k \in 1..5}

\* the functions a caller may pass to map: the identity and the constant
\* functions
MapFuncs ==
  {[v \in AllVals |-> v]} \cup {[v \in AllVals |-> c] : c \in {None, IntV(1)}}

\* u = s.map(f)
map ==
  /\ CanCall
  /\ \E s \in roots, f \in MapFuncs :
       Call("map", s, [NoArgs EXCEPT !.func = f], Seq_map(World, s, f),
            "table")

\* del s[position]
delitem ==
  /\ CanCall
  /\ \E s \in roots, position \in 0..MaxRows :
       Call("delitem", s, [NoArgs EXCEPT !.index = position],
            Seq_delitem(World, s, position), "none")

\* the transforms, which return a Seq
Transforms ==
  {"as_type", "head", "tail", "reverse", "Seq.sorted", "filter", "map"}

(***************************************************************************)
(* C22 (independent transforms): map, filter, sorted, reverse, head, tail  *)
(* and as_type leave the data, the name and the dtype of the receiver      *)
(* unchanged, and an append or a deletion on one Seq never changes the     *)
(* data of another Seq.                                                    *)
(***************************************************************************)
C22_IndependentSeqs ==
  /\ (hist # <<>> /\ Last.op \in Transforms) =>
       SeqState(World, Last.t) = SeqState(pre, Last.t)
  /\ (Called("append") \/ Called("delitem")) =>
       \A s \in roots \ {Last.t} : SeqState(World, s) = SeqState(pre, s)

\* the Seq a call returned
Out == Last.ret[1]

(***************************************************************************)
(* C23 (as_type relabels): for every Seq s and type t, s.as_type(t) raises *)
(* nothing and returns a Seq with dtype t, the name of s and the very      *)
(* values s held, none of them converted.                                  *)
(***************************************************************************)
C23_AsTypeRelabels ==
  (Called("as_type") /\ Last.args.dtypes[1] \in Types) =>
    /\ Last.exc = "ok"
    /\ SeqState(World, Out) =
         <<DataOf(pre, Last.t), pre.seqs[Last.t].name, Last.args.dtypes[1]>>

\* s.grow(n); the record holds n as index
grow ==
  /\ CanCall
  /\ \E s \in roots, n \in -1..MaxRows :
       Call("grow", s, [NoArgs EXCEPT !.index = n], Seq_grow(World, s, n),
            "table")

(***************************************************************************)
(* C24 (grow): s.grow(n) with n > 0 returns a new Seq with the name and    *)
(* the dtype of s whose data is that of s followed by n None values, with  *)
(* n = 0 it returns s itself and with n < 0 it raises ValueError; s is     *)
(* unchanged in every case, whatever its dtype and its length.             *)
(***************************************************************************)
C24_Grow ==
  Called("grow") =>
    /\ SeqState(World, Last.t) = SeqState(pre, Last.t)
    /\ IF Last.args.index < 0 THEN Last.exc = "ValueError"
       ELSE IF Last.args.index = 0
       THEN Last.exc = "ok" /\ Last.ret = <<Last.t>>
       ELSE /\ Last.exc = "ok"
            /\ Out > Len(pre.seqs)
            /\ SeqState(World, Out) =
                 <<DataOf(pre, Last.t) \o [j \in 1..Last.args.index |-> None],
                   pre.seqs[Last.t].name, pre.seqs[Last.t].dtype>>

\* the first n elements of a sequence, all of them when there are fewer
First(items, n) == SubSeq(items, 1, Least(n, Len(items)))

\* the last n elements of a sequence, all of them when there are fewer
Final(items, n) ==
  SubSeq(items, Len(items) - Least(n, Len(items)) + 1, Len(items))

(***************************************************************************)
(* C25 (head and tail): for every n >= 0, also 0 and more than the length, *)
(* s.head(n) holds the first min(n, len(s)) elements of s and s.tail(n)    *)
(* the last min(n, len(s)), in their order, and neither raises.            *)
(***************************************************************************)
C25_HeadTail ==
  /\ Called("head") =>
       /\ Last.exc = "ok"
       /\ DataOf(World, Out) = First(DataOf(pre, Last.t), Last.args.index)
  /\ Called("tail") =>
       /\ Last.exc = "ok"
       /\ DataOf(World, Out) = Final(DataOf(pre, Last.t), Last.args.index)

(***************************************************************************)
(* Table.intersect statement by statement: the call in progress is the     *)
(* last record of hist, whose exc holds its position, "for" at the head of *)
(* the loop "for row in self" and "body" in its body, whose ret holds emt  *)
(* and whose args.row holds the row the loop fetched; pre is the world     *)
(* before the call.                                                        *)
(***************************************************************************)
\* a call is in progress
Running == hist # <<>> /\ Last.exc \in {"for", "body"}

\* the rows kept in emt; the loop never reads emt, and the rows it appends
\* beyond these are left out
MaxOut == 3

\* the call in progress goes on as r, r.exc its new position or the way it
\* ended, with row fetched; a call that ended well hands emt to the caller
Goes(r, row) ==
  /\ pre' = pre
  /\ Becomes(r.w)
  /\ roots' = IF r.exc = "ok" THEN roots \cup Range(Last.ret) ELSE roots
  /\ hist' = [hist EXCEPT ![Len(hist)] =
                [@ EXCEPT !.exc = r.exc, !.args.row = row,
                          !.ret = IF r.exc \in {"ok", "for", "body"}
                                  THEN @ ELSE <<>>]]

\* a call begins and is at r.exc, with r.ret its emt, or raised at once
Begins(op, t, args, r) ==
  /\ pre' = World
  /\ Becomes(r.w)
  /\ roots' = roots
  /\ hist' = Append(hist, [op |-> op, t |-> t, args |-> args, exc |-> r.exc,
                           ret |-> IF r.exc = "for" THEN <<r.ret>>
                                   ELSE <<>>])

\* t.intersect(other) up to the loop: the check of the columns,
\* emt = Table.empty(self.cols, self.dtypes) and iter(self)
intersect_head(w, t, other) ==
  IF Table_cols(w, t) # Table_cols(w, other) THEN Res(w, "ValueError", 0)
  ELSE Bind(Table_empty(w, Table_cols(w, t), Table_dtypes(w, t)),
            LAMBDA e : Res(Table_iter(e.w, t), "for", e.ret))

intersect_begin ==
  /\ CanCall
  /\ ~Running
  /\ \E t \in roots, other \in roots :
       Begins("intersect", t, [NoArgs EXCEPT !.other = other],
              intersect_head(World, t, other))

\* "for row in self": next(self), which ends the loop and the call with
\* StopIteration and else fetches a row
for_row(w, t) ==
  IF Table_next(w, t).exc = "StopIteration" THEN Res(w, "ok", <<>>)
  ELSE IF Table_next(w, t).exc # "ok" THEN Table_next(w, t)
  ELSE Res(Table_next(w, t).w, "body", Table_next(w, t).ret)

intersect_next ==
  /\ Running
  /\ Last.exc = "for"
  /\ \E r \in {for_row(World, Last.t)} : Goes(r, r.ret)

\* emt.append_row(row) while emt holds fewer than MaxOut rows
kept_row(w, emt, row) ==
  IF Table_shape(w, emt)[2] >= MaxOut THEN Res(w, "ok", 0)
  ELSE Table_append_row(w, emt, row)

\* "if other.contains_row(row): emt.append_row(row)", after which the call
\* is at the head of the loop again
loop_body(w, other, emt, row) ==
  Bind(Table_contains_row(w, other, row),
    LAMBDA c :
      IF ~c.ret THEN Res(c.w, "for", 0)
      ELSE Bind(kept_row(c.w, emt, row), LAMBDA a : Res(a.w, "for", 0)))

intersect_body ==
  /\ Running
  /\ Last.exc = "body"
  /\ \E r \in {loop_body(World, Last.args.other, Last.ret[1],
                          Last.args.row)} :
       Goes(r, Last.args.row)

NextRun ==
  \/ intersect_begin
  \/ intersect_next
  \/ intersect_body

\* A = Table.from_iterable(a, names, dtypes) of up to MaxRows rows and
\* B = Table.from_iterable(b, names2, dtypes) of up to one row, both of
\* dtype int
InitRun ==
  \E n \in 1..MaxCols, ma \in 0..MaxRows, mb \in 0..1 :
    \E a \in SetCols(n, ma), b \in SetCols(n, mb),
       names2 \in OtherNames(SubSeq(ColNames, 1, n)) :
      Started(two_tables(a, SubSeq(ColNames, 1, n), b, names2,
                         [j \in 1..n |-> "int"]),
              <<[op |-> "from_iterable", t |-> 0, args |-> NoArgs,
                 exc |-> "ok", ret |-> <<1, 2>>]>>)

\* a call in progress goes on: the interpreter runs its next statement
SpecRun ==
  /\ InitRun
  /\ [][NextRun]_vars
  /\ WF_vars(intersect_next)
  /\ WF_vars(intersect_body)

(***************************************************************************)
(* C26 (termination): every t.intersect(other) that began runs to its end  *)
(* or raises, for every pair of Tables, also when other is t itself and t  *)
(* has duplicate rows.                                                     *)
(***************************************************************************)
C26_IntersectEnds == Running ~> ~Running

(***************************************************************************)
(* Tables made of the Seqs of a Table: the caller builds a Table from its  *)
(* Seqs, derives a second Table from it and then changes the rows of one   *)
(* of the two.                                                             *)
(***************************************************************************)
\* {k: self._data[k] for k in key}, from the name at j on
RECURSIVE picked(_, _, _, _)
picked(d, key, j, acc) ==
  IF j > Len(key) THEN acc
  ELSE picked(d, key, j + 1, DictSet(acc, key[j], DictGet(d, key[j])))

\* Table.__getitem__(key) for a sequence of names: a Table of the Seqs
\* stored under these names
Table_getitem(w, t, key) ==
  IF \E j \in 1..Len(key) : ~DictHas(DictOf(w, t), key[j])
  THEN Res(w, "KeyError", 0)
  ELSE Table_of(w, picked(DictOf(w, t), key, 1, <<>>))

\* t = Table.from_seqs([Seq(items, name, dtype), ...]) with at least one
\* Seq; the caller keeps the Seqs
InitOwn ==
  \E n \in 1..MaxCols :
    \E items \in [1..n -> ItemSeqs], dts \in [1..n -> DTypes] :
      Started(One(Bind(caller_seqs(EmptyWorld, items, SubSeq(ColNames, 1, n),
                                   dts, 1, <<>>),
                       LAMBDA ss : Table_from_seqs(ss.w, ss.ret))),
              <<>>)

\* the keys a caller may pass: one name, or the names of the Table
Keys(w, t) ==
  {<<ColNames[j]>> : j \in 1..Len(ColNames)} \cup {Table_cols(w, t)}

\* u = t[key]
getitem ==
  /\ CanCall
  /\ \E t \in roots :
     \E key \in Keys(World, t) :
       Call("getitem", t, [NoArgs EXCEPT !.cols = key],
            Table_getitem(World, t, key), "table")

\* u = Table.from_seqs([t[name], ...]): a second Table of Seqs the caller
\* holds; t[name] is the Seq stored under name
from_seqs_again ==
  /\ CanCall
  /\ \E t \in roots :
     \E key \in Keys(World, t) :
       /\ \A j \in 1..Len(key) : DictHas(DictOf(World, t), key[j])
       /\ Call("from_seqs", t, [NoArgs EXCEPT !.cols = key],
               Table_from_seqs(World,
                               [j \in 1..Len(key) |->
                                  DictGet(DictOf(World, t), key[j])]),
               "table")

NextOwn ==
  \/ getitem
  \/ from_seqs_again
  \/ concat
  \/ left_join
  \/ append_row
  \/ drop_row
  \/ drop_nones

SpecOwn == InitOwn /\ [][NextOwn]_vars

\* the calls that change the rows of a Table
RowMutations == {"append_row", "drop_row", "drop_nones"}

(***************************************************************************)
(* C27 (exclusive ownership of columns): append_row, drop_row and          *)
(* drop_nones on one Table change no other Table, whether the other was    *)
(* built by from_seqs from the same Seqs, is a sub-table t[[names]] or its *)
(* parent, or is an operand or the result of concat or left_join.          *)
(***************************************************************************)
C27_OwnColumns ==
  (hist # <<>> /\ Last.op \in RowMutations) =>
    \A u \in roots \ {Last.t} : Untouched(u)

(***************************************************************************)
(* The three joins on the Tables A and B.                                  *)
(***************************************************************************)
\* Table.right_join(left, left_on, right_on): left.left_join(self, ...)
Table_right_join(w, t, left, left_on, right_on) ==
  Table_left_join(w, left, t, left_on, right_on)

\* u = t.right_join(left, left_on, right_on), for columns the tables have
right_join ==
  /\ CanCall
  /\ \E t \in roots, left \in roots :
     \E left_on \in Range(Table_cols(World, left)),
        right_on \in Range(Table_cols(World, t)) :
       Call("right_join", t,
            [NoArgs EXCEPT !.other = left, !.col = left_on,
                           !.right_on = right_on],
            Table_right_join(World, t, left, left_on, right_on), "table")

NextJoins ==
  \/ left_join
  \/ right_join
  \/ inner_join

SpecJoins == InitJoin /\ [][NextJoins]_vars

\* the joins
Joins == {"left_join", "right_join", "inner_join"}

(***************************************************************************)
(* C28 (joins leave their operands alone): after left_join, right_join or  *)
(* inner_join both operands have the columns and the rows, in their order, *)
(* that they had before the call, also when keys of self have no match.    *)
(***************************************************************************)
C28_JoinOperands ==
  (hist # <<>> /\ Last.op \in Joins) =>
    /\ Untouched(Last.t)
    /\ Untouched(Last.args.other)

(***************************************************************************)
(* Iteration over the rows of a Table.                                     *)
(***************************************************************************)
\* the loop of "[row for row in t]" after __iter__, acc the rows so far
RECURSIVE iter_loop(_, _, _)
iter_loop(w, t, acc) ==
  ForNext(Table_next(w, t), acc,
          LAMBDA n : iter_loop(n.w, t, Append(acc, n.ret)))

\* list(t): iter(t), then next(t) up to StopIteration
Table_list(w, t) == iter_loop(Table_iter(w, t), t, <<>>)

\* rows = list(t)
iterate ==
  /\ CanCall
  /\ \E t \in roots : Answer("list", t, NoArgs, Table_list(World, t))

SpecIter == InitQuery /\ [][iterate]_vars

(***************************************************************************)
(* C29 (row iteration): iterating a Table raises nothing and visits its    *)
(* rows t.i(0), ..., t.i(row_count - 1), each once and in this order,      *)
(* whatever the numbers of rows and of columns.                            *)
(***************************************************************************)
C29_Iteration ==
  Called("list") =>
    /\ Last.exc = "ok"
    /\ Last.ret = <<Rows(pre, Last.t)>>

NextSeq ==
  \/ append
  \/ delitem
  \/ as_type
  \/ head
  \/ tail
  \/ reverse
  \/ Seq_sorted_call
  \/ filter
  \/ map
  \/ grow

SpecSeq == InitSeq /\ [][NextSeq]_vars
====
